---------------------------- MODULE Spec2Model ----------------------------
(***************************************************************************)
(* A model of the Gemini Live session engine of almuete/ari:               *)
(* components/live/gemini/useGeminiLiveSession (the hook), with its        *)
(* helpers message.ts, tools.ts, net.ts, audio.ts and constants.ts.        *)
(*                                                                         *)
(* The hook's refs, React state and the browser objects it drives (the     *)
(* WebSockets, the timers, the audio contexts, the pending promises) are   *)
(* the fields of one record S.  Every function of the hook is an operator  *)
(* from state to state; a function that awaits is cut at its awaits, and   *)
(* the part still to run is a task of S.tasks.                             *)
(***************************************************************************)
EXTENDS Integers, Sequences, FiniteSets, TLC

VARIABLES S, opt

vars == <<S, opt>>

(***************************************************************************)
(* Bounds of the model.                                                    *)
(***************************************************************************)
MaxWs == 2
MaxTasks == 2
MaxMsgs == 2
MaxTime == 500
MaxOps == 3
MaxCallbacks == 3
MaxBatch == 3
MaxFragments == 5

(***************************************************************************)
(* Program constants.                                                      *)
(***************************************************************************)
SEND_SAMPLE_RATE == 16000
RECEIVE_SAMPLE_RATE == 24000
FRAME_SAMPLES == 320
GO_AWAY_RECONNECT_BEFORE_MS_DEFAULT == 2500
SESSION_MAX_DURATION_MS_DEFAULT == 600000
COUNTDOWN_INTERVAL_MS == 250
SCRIPT_PROCESSOR_BUFFER == 2048
GO_AWAY_AUTO_RECONNECT_DEFAULT == TRUE

(***************************************************************************)
(* Values.                                                                 *)
(***************************************************************************)
Null == << >>
Some(v) == <<v>>
Max(a, b) == IF a >= b THEN a ELSE b
Min(a, b) == IF a <= b THEN a ELSE b

\* Math.round: the nearest integer of num/den (den > 0), halves toward +infinity.
MathRound(num, den) == (2 * num + den) \div (2 * den)

RECURSIVE Pow10(_)
Pow10(k) == IF k = 0 THEN 1 ELSE 10 * Pow10(k - 1)

Digits == {"0", "1", "2", "3", "4", "5", "6", "7", "8", "9"}
DigitVal(c) ==
  CASE c = "0" -> 0 [] c = "1" -> 1 [] c = "2" -> 2 [] c = "3" -> 3 [] c = "4" -> 4
    [] c = "5" -> 5 [] c = "6" -> 6 [] c = "7" -> 7 [] c = "8" -> 8 [] c = "9" -> 9

\* Number("<digits>"): the value of a sequence of decimal digits.
RECURSIVE DigitsVal(_)
DigitsVal(ds) ==
  IF ds = << >> THEN 0
  ELSE 10 * DigitsVal(SubSeq(ds, 1, Len(ds) - 1)) + DigitVal(ds[Len(ds)])

AllDigits(ds) == \A i \in 1..Len(ds) : ds[i] \in Digits

\* String.prototype.trim on a sequence of characters.
RECURSIVE TrimLeft(_)
TrimLeft(cs) == IF cs # << >> /\ cs[1] = " " THEN TrimLeft(Tail(cs)) ELSE cs
RECURSIVE TrimRight(_)
TrimRight(cs) ==
  IF cs # << >> /\ cs[Len(cs)] = " " THEN TrimRight(SubSeq(cs, 1, Len(cs) - 1)) ELSE cs
Trim(cs) == TrimRight(TrimLeft(cs))

IndexOf(cs, c) ==
  IF \E i \in 1..Len(cs) : cs[i] = c
  THEN CHOOSE i \in 1..Len(cs) : cs[i] = c /\ \A j \in 1..(i - 1) : cs[j] # c
  ELSE 0

(***************************************************************************)
(* Strings: sequences of characters.                                       *)
(***************************************************************************)
StartsWith(a, b) == Len(b) <= Len(a) /\ SubSeq(a, 1, Len(b)) = b

RECURSIVE Join(_, _)
Join(strs, sep) ==
  IF strs = << >> THEN << >>
  ELSE IF Len(strs) = 1 THEN strs[1]
  ELSE strs[1] \o sep \o Join(Tail(strs), sep)

LowerCase == <<"a", "b", "c", "d", "e", "f", "g", "h", "i", "j", "k", "l", "m", "n", "o", "p", "q", "r", "s", "t", "u", "v", "w", "x", "y", "z">>
UpperCase == <<"A", "B", "C", "D", "E", "F", "G", "H", "I", "J", "K", "L", "M", "N", "O", "P", "Q", "R", "S", "T", "U", "V", "W", "X", "Y", "Z">>

\* The lower-case form of a character (the regex's "i" flag).
ToLower(c) ==
  IF \E k \in 1..26 : UpperCase[k] = c
  THEN LowerCase[CHOOSE k \in 1..26 : UpperCase[k] = c]
  ELSE c

\* \w of a regular expression.
IsWordChar(c) ==
  \/ \E k \in 1..26 : LowerCase[k] = c \/ UpperCase[k] = c
  \/ c \in Digits
  \/ c = "_"

STOP_SEQUENCES ==
  << <<"b", "y", "e">>,
     <<"b", "y", "e", " ", "b", "y", "e">>,
     <<"g", "o", "o", "d", "b", "y", "e">>,
     <<"g", "o", "o", "d", " ", "b", "y", "e">>,
     <<"s", "e", "e", " ", "y", "o", "u", " ", "l", "a", "t", "e", "r">>,
     <<"s", "e", "e", " ", "y", "o", "u", " ", "s", "o", "o", "n">>,
     <<"s", "e", "e", " ", "y", "o", "u", " ", "t", "o", "m", "o", "r", "r", "o", "w">>,
     <<"s", "e", "e", " ", "y", "o", "u", " ", "n", "e", "x", "t", " ", "t", "i", "m", "e">>,
     <<"s", "e", "e", " ", "y", "o", "u", " ", "n", "e", "x", "t", " ", "w", "e", "e", "k">>,
     <<"s", "e", "e", " ", "y", "o", "u", " ", "n", "e", "x", "t", " ", "m", "o", "n", "t", "h">>,
     <<"s", "e", "e", " ", "y", "o", "u", " ", "n", "e", "x", "t", " ", "y", "e", "a", "r">>,
     <<"s", "e", "e", " ", "y", "o", "u", " ", "n", "e", "x", "t", " ", "d", "e", "c", "a", "d", "e">>,
     <<"s", "e", "e", " ", "y", "o", "u", " ", "n", "e", "x", "t", " ", "c", "e", "n", "t", "u", "r", "y">>,
     <<"s", "e", "e", " ", "y", "o", "u", " ", "n", "e", "x", "t", " ", "m", "i", "l", "l", "e", "n", "n", "i", "u", "m">> >>

\* Whether phrase occurs in text at position i, ignoring case, between two \b.
PhraseAt(text, phrase, i) ==
  /\ i + Len(phrase) - 1 <= Len(text)
  /\ \A k \in 1..Len(phrase) : ToLower(text[i + k - 1]) = phrase[k]
  /\ (i = 1 \/ ~IsWordChar(text[i - 1]))
  /\ (i + Len(phrase) - 1 = Len(text) \/ ~IsWordChar(text[i + Len(phrase)]))

\* createStopSequenceRegex().test(text)
stopSequenceRegexTest(text) ==
  \E p \in 1..Len(STOP_SEQUENCES) : \E i \in 1..Len(text) :
    PhraseAt(text, STOP_SEQUENCES[p], i)

(***************************************************************************)
(* JSON values, as JSON.parse yields them.  A value is a record with its   *)
(* JavaScript type in t: "undefined", "null", "boolean" (b), "number" (v,  *)
(* an integer or NaN when nan), "string" (chars: its characters), "array"  *)
(* (items) or "object" (f: a record of its members).                       *)
(* decodes to the bytes of the 16-bit samples s (odd: one byte more).      *)
(***************************************************************************)
JUndef == [t |-> "undefined"]
JNull == [t |-> "null"]
JBool(b) == [t |-> "boolean", b |-> b]
JNum(n) == [t |-> "number", v |-> n, nan |-> FALSE]
JNaN == [t |-> "number", v |-> 0, nan |-> TRUE]
JStr(cs) == [t |-> "string", chars |-> cs]
JArr(items) == [t |-> "array", items |-> items]
JObj(f) == [t |-> "object", f |-> f]

\* value?.[key]
Get(v, key) == IF v.t = "object" /\ key \in DOMAIN v.f THEN v.f[key] ELSE JUndef

\* a ?? b
Coalesce(a, b) == IF a.t \in {"undefined", "null"} THEN b ELSE a

\* JavaScript truthiness.
Truthy(v) ==
  CASE v.t \in {"undefined", "null"} -> FALSE
    [] v.t = "boolean" -> v.b
    [] v.t = "number" -> ~v.nan /\ v.v # 0
    [] v.t = "string" -> v.chars # << >>
    [] OTHER -> TRUE

\* a || b
OrElse(a, b) == IF Truthy(a) THEN a ELSE b

\* Number(string) for the strings of the model: an optional sign and digits (the
\* empty string is 0); any other string is NaN.
NumberOfString(chars) ==
  LET t == Trim(chars)
      neg == t # << >> /\ t[1] = "-"
      body == IF neg THEN Tail(t) ELSE t
  IN IF t = << >> THEN JNum(0)
     ELSE IF body # << >> /\ AllDigits(body)
     THEN JNum((IF neg THEN -1 ELSE 1) * DigitsVal(body))
     ELSE JNaN

\* Number.isFinite
IsFiniteNumber(v) == v.t = "number" /\ ~v.nan

(***************************************************************************)
(* durationToMs.                                                           *)
(***************************************************************************)
\* The match of /^(-?\d+)(?:\.(\d+))?s$/ on the trimmed string: Null when there is
\* none, else <<[neg, whole, frac]>>: the sign and the digits of the two groups.
DurationMatch(chars) ==
  LET t == Trim(chars)
      neg == t # << >> /\ t[1] = "-"
      body == IF neg THEN Tail(t) ELSE t
      n == Len(body)
      dot == IndexOf(body, ".")
      whole == IF dot = 0 THEN SubSeq(body, 1, n - 1) ELSE SubSeq(body, 1, dot - 1)
      frac == IF dot = 0 THEN << >> ELSE SubSeq(body, dot + 1, n - 1)
  IN IF /\ n >= 2
        /\ body[n] = "s"
        /\ whole # << >>
        /\ AllDigits(whole)
        /\ (dot # 0 => frac # << >>)
        /\ AllDigits(frac)
     THEN Some([neg |-> neg, whole |-> whole, frac |-> frac])
     ELSE Null

\* durationToMs(duration): Null (null) or <<ms>>.  Numbers are integers here.
durationToMs(duration) ==
  IF duration.t = "string" THEN
    LET m == DurationMatch(duration.chars)
    IN IF m = Null THEN Null
       ELSE LET whole == (IF m[1].neg THEN -1 ELSE 1) * DigitsVal(m[1].whole)
                k == Len(m[1].frac)
                \* (whole + 0.frac) * 1000 = num / 10^k
                num == (whole * Pow10(k) + DigitsVal(m[1].frac)) * 1000
            IN Some(MathRound(num, Pow10(k)))
  ELSE IF duration.t \in {"object", "array"} THEN
    LET sec == Get(duration, "seconds")
        seconds == IF sec.t = "string" THEN NumberOfString(sec.chars)
                   ELSE Coalesce(sec, JNum(0))
        nan == Get(duration, "nanos")
        nanos == IF nan.t = "number" THEN nan ELSE JNum(0)
    IN IF ~IsFiniteNumber(seconds) \/ ~IsFiniteNumber(nanos) THEN Null
       \* Math.round(seconds * 1000 + nanos / 1e6), seconds an integer
       ELSE Some(seconds.v * 1000 + MathRound(nanos.v, 1000000))
  ELSE Null

(***************************************************************************)
(* message.ts: the extraction helpers.                                     *)
(***************************************************************************)
RECURSIVE Walk(_, _)
Walk(cur, path) == IF path = << >> THEN cur ELSE Walk(Get(cur, path[1]), Tail(path))

\* readFirstString(root, paths): Null or <<string value>>.
RECURSIVE readFirstString(_, _)
readFirstString(root, paths) ==
  IF paths = << >> THEN Null
  ELSE LET cur == Walk(root, paths[1])
       IN IF cur.t = "string" /\ Trim(cur.chars) # << >> THEN Some(cur)
          ELSE readFirstString(root, Tail(paths))

\* Whether reading a property of v throws a TypeError.
ThrowsOnRead(v) == v.t \in {"undefined", "null"}

\* extractFunctionCalls(msg): [threw |-> TRUE] for a msg whose property cannot be
\* read, else [threw |-> FALSE, calls |-> Null (null) or <<the array's items>>].
extractFunctionCalls(msg) ==
  IF ThrowsOnRead(msg) THEN [threw |-> TRUE, calls |-> Null]
  ELSE LET toolCall == Coalesce(Get(msg, "toolCall"), Get(msg, "tool_call"))
           functionCalls ==
             Coalesce(Get(toolCall, "functionCalls"), Get(toolCall, "function_calls"))
       IN [threw |-> FALSE,
           calls |-> IF functionCalls.t = "array" THEN Some(functionCalls.items)
                     ELSE Null]

detectServerMessageType(msg) ==
  LET Has(a, b) == Truthy(Get(msg, a)) \/ Truthy(Get(msg, b))
  IN IF ~Truthy(msg) \/ msg.t \notin {"object", "array"} THEN "unknown"
     ELSE IF Has("setupComplete", "setup_complete") THEN "setupComplete"
     ELSE IF Has("serverContent", "server_content") THEN "serverContent"
     ELSE IF Has("toolCall", "tool_call") THEN "toolCall"
     ELSE IF Has("toolCallCancellation", "tool_call_cancellation")
     THEN "toolCallCancellation"
     ELSE IF Has("sessionResumptionUpdate", "session_resumption_update")
     THEN "sessionResumptionUpdate"
     ELSE IF Has("goAway", "go_away") THEN "goAway"
     ELSE "unknown"

(***************************************************************************)
(* tools.ts and net.ts.  A string that the code only compares whole (a     *)
(* tool name, an id, an error message) is written as one symbol.           *)
(***************************************************************************)
Sym(x) == JStr(<<x>>)

\* toLatLng(value)
toLatLng(value) ==
  LET lat == Get(value, "lat")
      lng == Get(value, "lng")
  IN IF ~Truthy(value) \/ value.t \notin {"object", "array"} THEN JNull
     ELSE IF ~IsFiniteNumber(lat) \/ ~IsFiniteNumber(lng) THEN JNull
     ELSE JObj([lat |-> lat, lng |-> lng])

\* The origin / destination of maps_directions, from the three spellings.
DirectionsPlace(a, addressKey, latKey, lngKey, plainKey) ==
  LET address == Get(a, addressKey)
      lat == Get(a, latKey)
      lng == Get(a, lngKey)
      plain == Get(a, plainKey)
  IN IF address.t = "string" /\ Trim(address.chars) # << >> THEN JStr(Trim(address.chars))
     ELSE IF IsFiniteNumber(lat) /\ IsFiniteNumber(lng) THEN JObj([lat |-> lat, lng |-> lng])
     ELSE IF plain.t = "string" THEN plain
     ELSE toLatLng(plain)

FirstFinite(a, snakeKey, camelKey) ==
  IF IsFiniteNumber(Get(a, snakeKey)) THEN Get(a, snakeKey)
  ELSE IF IsFiniteNumber(Get(a, camelKey)) THEN Get(a, camelKey)
  ELSE JUndef

StringOr(v, default) == IF v.t = "string" THEN v ELSE default

\* runGeminiTool(name, args) up to its call of postJson: the request it posts, or
\* the error it throws.
runGeminiTool(name, args) ==
  IF name = Sym("maps_geocode") THEN
    [threw |-> FALSE, url |-> "/api/maps/geocode",
     body |-> [address |-> StringOr(Get(args, "address"), JStr(<< >>))]]
  ELSE IF name = Sym("maps_search_places") THEN
    LET lat == Get(args, "location_lat")
        lng == Get(args, "location_lng")
    IN [threw |-> FALSE, url |-> "/api/maps/places",
        body |-> [query |-> StringOr(Get(args, "query"), JStr(<< >>)),
                  location |-> IF IsFiniteNumber(lat) /\ IsFiniteNumber(lng)
                               THEN JObj([lat |-> lat, lng |-> lng]) ELSE JNull,
                  radiusMeters |-> FirstFinite(args, "radius_meters", "radiusMeters"),
                  maxResults |-> FirstFinite(args, "max_results", "maxResults")]]
  ELSE IF name = Sym("maps_directions") THEN
    [threw |-> FALSE, url |-> "/api/maps/directions",
     body |-> [origin |->
                 DirectionsPlace(args, "origin_address", "origin_lat", "origin_lng", "origin"),
               destination |->
                 DirectionsPlace(args, "destination_address", "destination_lat",
                                 "destination_lng", "destination"),
               mode |-> StringOr(Get(args, "mode"), JUndef)]]
  ELSE IF name = Sym("web_search") THEN
    [threw |-> FALSE, url |-> "/api/web/search",
     body |-> [query |-> StringOr(Get(args, "query"), JStr(<< >>)),
               maxResults |-> FirstFinite(args, "max_results", "maxResults")]]
  ELSE [threw |-> TRUE, message |-> <<"Unknown tool", name>>]

\* What fetch() and res.json() of one collaborator call come to:
\*   [net |-> FALSE]: fetch rejected; else [net |-> TRUE, ok, status, data], data the
\*   parsed body, or JUndef for a body that is no JSON.
HttpOutcomes ==
  { [net |-> FALSE, ok |-> FALSE, status |-> 0, data |-> JUndef],
    [net |-> TRUE, ok |-> TRUE, status |-> 200,
     data |-> JObj([status |-> Sym("OK")])],
    [net |-> TRUE, ok |-> FALSE, status |-> 400,
     data |-> JObj([error |-> Sym("Missing query")])],
    [net |-> TRUE, ok |-> FALSE, status |-> 502, data |-> JUndef] }

\* postJson after the response: [threw, message] or [threw |-> FALSE, data].
postJson(http) ==
  LET data == IF http.data.t = "undefined" THEN JObj(<< >>) ELSE http.data
  IN IF ~http.net THEN [threw |-> TRUE, message |-> <<"Failed to fetch">>]
     ELSE IF ~http.ok
     THEN [threw |-> TRUE,
           message |-> IF Truthy(Get(data, "error")) THEN <<Get(data, "error")>>
                       ELSE <<"Request failed", http.status>>]
     ELSE [threw |-> FALSE, data |-> data]

\* One functionResponses entry of handleToolCalls.
ToolOutput(id, name, output) == [id |-> id, name |-> name, response |-> [output |-> output]]
ToolError(id, name, message) == [id |-> id, name |-> name, response |-> [error |-> message]]

\* fc.id || `${Date.now()}-${Math.random()}`
GeneratedId == [t |-> "string", chars |-> <<"generated">>, generated |-> TRUE]
ToolCallId(fc) == OrElse(Get(fc, "id"), GeneratedId)
ToolCallName(fc) == OrElse(Get(fc, "name"), JStr(<< >>))

\* The body of handleToolCalls' map callback for one call, up to its first await:
\*   [state |-> "threw"]: reading fc.id threw (the callback's promise rejects);
\*   [state |-> "done", entry]: the callback returned its entry;
\*   [state |-> "pending", id, name, url, body]: it awaits the collaborator.
toolCallStart(fc) ==
  IF ThrowsOnRead(fc) THEN [state |-> "threw"]
  ELSE LET id == ToolCallId(fc)
           name == ToolCallName(fc)
           req == runGeminiTool(name, Get(fc, "args"))
       IN IF ~Truthy(name)
          THEN [state |-> "done", entry |-> ToolError(id, name, <<"Tool call missing name.">>)]
          ELSE IF req.threw
          THEN [state |-> "done", entry |-> ToolError(id, name, req.message)]
          ELSE [state |-> "pending", id |-> id, name |-> name, url |-> req.url,
                body |-> req.body]

\* The callback without its try / catch: a failed request rejects its promise.
toolCallFinishNoCatch(call, http) ==
  LET r == postJson(http)
  IN IF r.threw THEN [state |-> "threw"]
     ELSE [state |-> "done", entry |-> ToolOutput(call.id, call.name, r.data)]

toolCallFinishOutput(call, http) ==
  [state |-> "done", entry |-> ToolOutput(call.id, call.name, http.data)]

\* The callback after its await of runGeminiTool, for the response http.
toolCallFinish(call, http) ==
  LET r == postJson(http)
  IN [state |-> "done",
      entry |-> IF r.threw THEN ToolError(call.id, call.name, r.message)
                ELSE ToolOutput(call.id, call.name, r.data)]

(***************************************************************************)
(* The state.  Ids (sockets, timers, streams, audio contexts, nodes) are   *)
(* positive integers and 0 is a null ref.                                  *)
(***************************************************************************)
NoEvent == [blob |-> FALSE, parses |-> FALSE, json |-> JUndef]

\* An async call in flight: kind is the function, pc the await it waits at; a
\* handler also holds its socket, the number and the event of its message, the
\* entries of its tool calls, the part of the turn it plays and its playback context.
NoTask ==
  [kind |-> "none", pc |-> "", ws |-> 0, n |-> 0, msg |-> NoEvent, res |-> << >>,
   part |-> 0, ctx |-> 0]

Task(kind, pc) == [NoTask EXCEPT !.kind = kind, !.pc = pc]

\* A socket: its readyState, the messages send() queued and those it discarded, and
\* how many times the stop sequence issued its close(1000) on it.
NoSocket == [readyState |-> "NONE", sent |-> << >>, discarded |-> << >>, stopCloses |-> 0]

InitS ==
  [ now |-> 0,
    \* React state (useState)
    connected |-> FALSE,
    streaming |-> FALSE,
    inputTranscript |-> << >>,
    outputTranscript |-> << >>,
    goAwayTimeLeftMs |-> Null,
    goAwayTimeLeftSource |-> "null",
    lastServerMessageType |-> "",
    lastLog |-> [level |-> "none", msg |-> ""],
    \* refs (useRef)
    wsRef |-> 0,
    goAwaySeenRef |-> FALSE,
    sessionStartAtRef |-> Null,
    sessionCountdownRef |-> 0,
    sessionReconnectTimerRef |-> 0,
    lastInputTranscriptRef |-> << >>,
    lastOutputTranscriptRef |-> << >>,
    outputHistoryRef |-> << >>,
    micStreamRef |-> 0,
    audioCtxRef |-> 0,
    sourceNodeRef |-> 0,
    processorRef |-> 0,
    sendBufRef |-> << >>,
    sendBufSamplesRef |-> 0,
    playCtxRef |-> 0,
    playTimeRef |-> 0,
    goAwayTimerRef |-> 0,
    goAwayCountdownRef |-> 0,
    \* the browser
    sockets |-> [w \in 1..MaxWs |-> NoSocket],
    timers |-> {},
    tasks |-> [i \in 1..MaxTasks |-> NoTask],
    streams |-> {},
    audioCtxs |-> {},
    procs |-> {},
    playCtxs |-> {},
    scheduled |-> << >>,
    \* counters of the environment
    msgCount |-> 0,
    ops |-> 0,
    callbacks |-> 0,
    \* history of the capture since startMic emptied the send buffer: samples
    \* resampled, frames assembled, frames sent and dropped by sendAudioFrame
    capTotal |-> 0,
    capFrames |-> 0,
    capSent |-> 0,
    capDropped |-> 0,
    \* history of the go-away reconnect timer: the delay it ran after, and whether
    \* the microphone was streaming then
    goAwayFired |-> Null,
    \* history of the messages: the events in arrival order, each with the socket
    \* its handler read from wsRef (0: it returned at once) and what the
    \* collaborator answered to each of its tool calls; the messages whose handler
    \* ran its catch block; the messages whose tool response went to a socket
    \* that was not wsRef.current when it was sent
    delivered |-> << >>,
    caught |-> {},
    staleSends |-> {},
    \* history of the token requests: what each one came to
    tokens |-> << >> ]

\* log(): logs holds the newest entry first; the model keeps that entry only.
log(s, level, msg) == [s EXCEPT !.lastLog = [level |-> level, msg |-> msg]]

FreeSlots(s) == {i \in 1..MaxTasks : s.tasks[i].kind = "none"}
FreeSlot(s) == CHOOSE i \in FreeSlots(s) : \A j \in FreeSlots(s) : i <= j
SetTask(s, i, task) == [s EXCEPT !.tasks[i] = task]
EndTask(s, i) == [s EXCEPT !.tasks[i] = NoTask]

(***************************************************************************)
(* WebSocket.                                                              *)
(***************************************************************************)
ReadyState(s, w) == IF w = 0 THEN "NONE" ELSE s.sockets[w].readyState
IsOpen(s, w) == ReadyState(s, w) = "OPEN"

\* WebSocket.close(): starts the closing handshake; no effect once closing or closed.
wsClose(s, w) ==
  IF ReadyState(s, w) \in {"CONNECTING", "OPEN"}
  THEN [s EXCEPT !.sockets[w].readyState = "CLOSING"]
  ELSE s

\* WebSocket.send() on a socket that is not CONNECTING: queued when OPEN, silently
\* discarded when CLOSING or CLOSED.  (On a CONNECTING socket send() throws.)
wsSend(s, w, m) ==
  IF IsOpen(s, w)
  THEN [s EXCEPT !.sockets[w].sent = Append(@, m)]
  ELSE [s EXCEPT !.sockets[w].discarded = Append(@, m)]

UnusedSockets(s) == {w \in 1..MaxWs : s.sockets[w].readyState = "NONE"}
NewSocket(s) == CHOOSE w \in UnusedSockets(s) : \A v \in UnusedSockets(s) : w <= v

(***************************************************************************)
(* Timers: setTimeout / setInterval / clearTimeout / clearInterval.        *)
(* A live timer is [id, kind, due, start, ms]: start and ms are what the   *)
(* callback's closure captured.                                            *)
(***************************************************************************)
TimerRefs(s) ==
  {s.sessionCountdownRef, s.sessionReconnectTimerRef, s.goAwayTimerRef,
   s.goAwayCountdownRef}
UsedTimerIds(s) == {t.id : t \in s.timers} \cup TimerRefs(s)
NewTimerId(s) ==
  CHOOSE i \in 1..(Cardinality(UsedTimerIds(s)) + 1) :
    /\ i \notin UsedTimerIds(s)
    /\ \A j \in 1..(i - 1) : j \in UsedTimerIds(s)

setTimer(s, id, kind, delay, start, ms) ==
  [s EXCEPT !.timers = @ \cup
     {[id |-> id, kind |-> kind, due |-> s.now + delay, start |-> start, ms |-> ms]}]

clearTimer(s, id) == [s EXCEPT !.timers = {t \in @ : t.id # id}]

\* clearGoAwayTimers without clearTimeout and clearInterval.
clearGoAwayTimersRefsOnly(s) == [s EXCEPT !.goAwayTimerRef = 0, !.goAwayCountdownRef = 0]

clearGoAwayTimers(s) ==
  LET s1 == IF s.goAwayTimerRef # 0
            THEN [clearTimer(s, s.goAwayTimerRef) EXCEPT !.goAwayTimerRef = 0]
            ELSE s
  IN IF s1.goAwayCountdownRef # 0
     THEN [clearTimer(s1, s1.goAwayCountdownRef) EXCEPT !.goAwayCountdownRef = 0]
     ELSE s1

clearSessionTimers(s) ==
  LET s1 == IF s.sessionCountdownRef # 0
            THEN [clearTimer(s, s.sessionCountdownRef) EXCEPT !.sessionCountdownRef = 0]
            ELSE s
      s2 == IF s1.sessionReconnectTimerRef # 0
            THEN [clearTimer(s1, s1.sessionReconnectTimerRef)
                    EXCEPT !.sessionReconnectTimerRef = 0]
            ELSE s1
  IN [s2 EXCEPT !.sessionStartAtRef = Null]

resetGoAway(s) ==
  [clearGoAwayTimers(s) EXCEPT !.goAwayTimeLeftMs = Null, !.goAwayTimeLeftSource = "null"]

(***************************************************************************)
(* Teardown.                                                               *)
(***************************************************************************)
\* cleanupAudio up to and including the call of audioCtxRef.current.close().
cleanupAudioSync(s) ==
  [s EXCEPT !.streaming = FALSE,
            !.procs = {p \in @ : p.id # s.processorRef /\ p.ctx # s.audioCtxRef},
            !.processorRef = 0,
            !.sourceNodeRef = 0,
            !.streams = @ \ {s.micStreamRef},
            !.micStreamRef = 0,
            !.audioCtxs = @ \ {s.audioCtxRef}]

\* Whether cleanupAudio has to wait for close(): the ref holds a context, and that
\* context is still open (close() of a closed context rejects at once).
cleanupAudioAwaits(s) == s.audioCtxRef # 0 /\ s.audioCtxRef \in s.audioCtxs

\* cleanupAudio after the await.
cleanupAudioAfter(s) == [s EXCEPT !.audioCtxRef = 0]

cleanupWs(s) ==
  [wsClose([s EXCEPT !.connected = FALSE], s.wsRef) EXCEPT !.wsRef = 0]

\* fullCleanup up to the await of cleanupAudio().
fullCleanupHead(s) == clearSessionTimers(resetGoAway(s))

\* The playback contexts are [id, state, time]: state is "suspended", "running" or
\* "closed", time is currentTime in 1/RECEIVE_SAMPLE_RATE seconds.
PlayCtx(s, id) == CHOOSE c \in s.playCtxs : c.id = id
SetPlayCtxState(s, id, state) ==
  [s EXCEPT !.playCtxs = {IF c.id = id THEN [c EXCEPT !.state = state] ELSE c : c \in @}]

\* AudioContext.close() of the playback context.
closePlayCtx(s) == SetPlayCtxState(s, s.playCtxRef, "closed")

\* Whether close() of the playback context has to be waited for: close() of a
\* closed context rejects at once.
fullCleanupAwaitsPlay(s) == PlayCtx(s, s.playCtxRef).state # "closed"

\* fullCleanup after the await of playCtxRef.current.close().
fullCleanupTail(s) == [s EXCEPT !.playCtxRef = 0, !.playTimeRef = 0]

(***************************************************************************)
(* connect().                                                              *)
(***************************************************************************)
\* connect() up to the await of fetchEphemeralToken(), run as task i.
connectStart(s, i) ==
  IF s.wsRef # 0 /\ ReadyState(s, s.wsRef) \in {"OPEN", "CONNECTING"}
  THEN EndTask(log(s, "info", "WebSocket already open/connecting."), i)
  ELSE SetTask(log(s, "info", "Requesting ephemeral token"), i, Task("connect", "token"))

\* connect() after the token arrived: new WebSocket(wsUrl); wsRef.current = ws.
connectOpenSocket(s, i) ==
  LET w == NewSocket(s)
      s1 == log(s, "info", "Connecting WebSocket")
  IN EndTask([s1 EXCEPT !.sockets[w].readyState = "CONNECTING", !.wsRef = w], i)

\* connect(): the catch block (fetchEphemeralToken threw).
connectCatch(s, i) ==
  EndTask(cleanupWs(log(s, "error", "Failed to create ephemeral token.")), i)

\* onopen without its ws.send.
onopenSetupSkipped(s, w) == s

\* ws.onopen: `ws.send(JSON.stringify(setupMsg))`
onopenSetup(s, w) == wsSend(s, w, [type |-> "setup"])

\* ws.onopen of socket w.
onopen(s, w) ==
  LET s1 == log(s, "info", "WebSocket open. Sending setup")
      s2 == clearSessionTimers(
              [resetGoAway([s1 EXCEPT !.connected = TRUE]) EXCEPT !.goAwaySeenRef = FALSE])
      s3 == [s2 EXCEPT !.sessionStartAtRef = Some(s2.now),
                       !.goAwayTimeLeftSource = "estimated",
                       !.goAwayTimeLeftMs = Some(opt.sessionMaxDurationMs)]
      id1 == NewTimerId(s3)
      s4 == [setTimer(s3, id1, "sessionCountdown", COUNTDOWN_INTERVAL_MS, 0, 0)
               EXCEPT !.sessionCountdownRef = id1]
      id2 == NewTimerId(s4)
      delay == Max(0, opt.sessionMaxDurationMs - Max(0, opt.goAwayReconnectBeforeMs))
      s5 == IF opt.goAwayAutoReconnect
            THEN [setTimer(s4, id2, "sessionReconnect", delay, 0, 0)
                    EXCEPT !.sessionReconnectTimerRef = id2]
            ELSE s4
  IN onopenSetup(s5, w)

\* ws.onclose.
onclose(s) ==
  LET s1 == log(s, "warn", "WebSocket closed")
      s2 == IF ~s1.goAwaySeenRef
            THEN log(s1, "warn", "Closed without receiving server goAway")
            ELSE s1
  IN [clearSessionTimers(s2) EXCEPT !.connected = FALSE, !.streaming = FALSE]

\* ws.onerror.
onerror(s) == log(s, "error", "WebSocket error.")

(***************************************************************************)
(* What runs after an awaited cleanupAudio() / fullCleanup(), by the kind  *)
(* of the task that awaits.                                                *)
(***************************************************************************)
\* stopMic without the test of the readyState.
stopMicTailAlways(s) ==
  log(IF s.wsRef # 0 THEN wsSend(s, s.wsRef, [type |-> "audioStreamEnd"]) ELSE s,
      "info", "Mic streaming stopped.")

\* stopMic after `await cleanupAudio()`.
stopMicTail(s) ==
  LET s1 == IF IsOpen(s, s.wsRef)
            THEN wsSend(s, s.wsRef, [type |-> "audioStreamEnd"])
            ELSE s
  IN log(s1, "info", "Mic streaming stopped.")

\* The end of a task that awaited fullCleanup().
afterFullCleanup(s, i) ==
  EndTask(IF s.tasks[i].kind = "disconnect" THEN log(s, "info", "Disconnected.") ELSE s, i)

\* fullCleanup from cleanupWs() on (after its await of cleanupAudio()).
fullCleanupRest(s, i) ==
  LET s1 == cleanupWs(s)
  IN IF s1.playCtxRef = 0 THEN afterFullCleanup(s1, i)
     ELSE IF fullCleanupAwaitsPlay(s1)
     THEN [closePlayCtx(s1) EXCEPT !.tasks[i].pc = "playClose"]
     ELSE afterFullCleanup(fullCleanupTail(s1), i)

\* What follows `await cleanupAudio()` in task i.
afterCleanupAudio(s, i) ==
  LET kind == s.tasks[i].kind
  IN CASE kind \in {"disconnect", "stopSession"} -> fullCleanupRest(s, i)
       [] kind \in {"goAwayReconnect", "sessionReconnect"} -> connectStart(cleanupWs(s), i)
       [] kind = "stopMic" -> EndTask(stopMicTail(s), i)
       [] OTHER -> EndTask(s, i)

\* `await cleanupAudio()` in task i: the task waits for close() when a capture
\* context is open, and goes on at once otherwise.
awaitCleanupAudio(s, i) ==
  IF cleanupAudioAwaits(s)
  THEN [cleanupAudioSync(s) EXCEPT !.tasks[i].pc = "audioClose"]
  ELSE afterCleanupAudio(cleanupAudioAfter(cleanupAudioSync(s)), i)

\* `await fullCleanup()` in task i.
awaitFullCleanup(s, i) == awaitCleanupAudio(fullCleanupHead(s), i)

\* What fullCleanup() would do there instead: resetGoAway().
goAwayReconnectReset(s) == resetGoAway(s)

\* The reconnect timer clears the go-away timers and leaves the time-left alone:
\* "don't call fullCleanup() here".
goAwayReconnectClear(s) == clearGoAwayTimers(s)

\* The callback of the go-away reconnect timer, run as task i.
goAwayReconnect(s, i) ==
  LET s1 == SetTask(s, i, Task("goAwayReconnect", "start"))
      s2 == log(s1, "info", "Reconnecting (server GoAway)...")
  IN awaitCleanupAudio(goAwayReconnectClear(s2), i)

\* The callback of the estimated-session reconnect timer, run as task i.
sessionReconnect(s, i) ==
  IF s.goAwaySeenRef THEN s
  ELSE LET s1 == SetTask(s, i, Task("sessionReconnect", "start"))
           s2 == log(s1, "info", "Reconnecting (estimated session limit)...")
       IN awaitCleanupAudio(clearSessionTimers(clearGoAwayTimers(s2)), i)

\* The callback without Math.max(0, ...).
sessionCountdownTickUnclamped(s) ==
  IF s.goAwaySeenRef \/ s.sessionStartAtRef = Null THEN s
  ELSE [s EXCEPT !.goAwayTimeLeftMs =
                    Some(opt.sessionMaxDurationMs - (s.now - s.sessionStartAtRef[1])),
                 !.goAwayTimeLeftSource = "estimated"]

\* The callback of the estimated-session countdown interval.
sessionCountdownTick(s) ==
  IF s.goAwaySeenRef \/ s.sessionStartAtRef = Null THEN s
  ELSE LET elapsed == s.now - s.sessionStartAtRef[1]
           remaining == Max(0, opt.sessionMaxDurationMs - elapsed)
       IN [s EXCEPT !.goAwayTimeLeftMs = Some(remaining),
                    !.goAwayTimeLeftSource = "estimated"]

\* The callback of the go-away countdown interval armed with (start, ms).
goAwayCountdownTick(s, start, ms) ==
  [s EXCEPT !.goAwayTimeLeftMs = Some(Max(0, ms - (s.now - start)))]


(***************************************************************************)
(* handleMessage.  A message event is [blob, parses, json]: whether its    *)
(* data is a Blob, whether JSON.parse accepts the text, and the value.     *)
(* A handler is a task [kind, pc, ws, n, msg, res, part]: ws is the socket *)
(* it read from wsRef, n the number of the message in arrival order.       *)
(***************************************************************************)
InputPaths ==
  << <<"inputTranscription", "text">>, <<"input_transcription", "text">>,
     <<"serverContent", "inputTranscription", "text">>,
     <<"serverContent", "input_transcription", "text">>,
     <<"server_content", "inputTranscription", "text">>,
     <<"server_content", "input_transcription", "text">> >>

OutputPaths ==
  << <<"outputTranscription", "text">>, <<"output_transcription", "text">>,
     <<"serverContent", "outputTranscription", "text">>,
     <<"serverContent", "output_transcription", "text">>,
     <<"server_content", "outputTranscription", "text">>,
     <<"server_content", "output_transcription", "text">> >>

\* The catch block of handleMessage.
handlerCatch(s, i) ==
  EndTask([log(s, "error", "Failed to parse message") EXCEPT !.caught = @ \cup {s.tasks[i].n}], i)

goAwayReconnectDelayRaw(ms) == Max(0, ms - opt.goAwayReconnectBeforeMs)

\* The delay of the reconnect timer of a go-away of ms milliseconds.
goAwayReconnectDelay(ms) == Max(0, ms - Max(0, opt.goAwayReconnectBeforeMs))

\* The goAway branch, for a goAway object with a truthy timeLeft or time_left.
handleGoAway(s, maybeGoAway) ==
  LET s1 == [s EXCEPT !.goAwaySeenRef = TRUE]
      timeLeft == Coalesce(Get(maybeGoAway, "timeLeft"), Get(maybeGoAway, "time_left"))
      ms == durationToMs(timeLeft)
  IN IF ms # Null THEN
       LET s2 == [clearGoAwayTimers(s1) EXCEPT !.goAwayTimeLeftMs = ms,
                                               !.goAwayTimeLeftSource = "server"]
           s3 == log(s2, "warn", "Server GoAway: disconnecting")
           id1 == NewTimerId(s3)
           s4 == [setTimer(s3, id1, "goAwayCountdown", COUNTDOWN_INTERVAL_MS, s3.now, ms[1])
                    EXCEPT !.goAwayCountdownRef = id1]
           id2 == NewTimerId(s4)
       IN IF opt.goAwayAutoReconnect
          THEN [setTimer(s4, id2, "goAwayTimer", goAwayReconnectDelay(ms[1]), 0, 0)
                  EXCEPT !.goAwayTimerRef = id2]
          ELSE s4
     ELSE log(s1, "warn", "Server GoAway received, but timeLeft format was unrecognized.")

\* handleToolCalls: ws.send of the combined response, once every call has an entry.
toolsSend(s, i) ==
  LET task == s.tasks[i]
      m == [type |-> "toolResponse", n |-> task.n,
            functionResponses |-> [j \in 1..Len(task.res) |-> task.res[j].entry]]
      s1 == IF task.ws # s.wsRef THEN [s EXCEPT !.staleSends = @ \cup {task.n}] ELSE s
  IN IF ReadyState(s, task.ws) = "CONNECTING" THEN handlerCatch(s, i)
     ELSE EndTask(wsSend(s1, task.ws, m), i)

AllToolsDone(res) == \A j \in 1..Len(res) : res[j].state = "done"

toolsSettleEager(s, i) ==
  LET task == s.tasks[i]
      done == SelectSeq(task.res, LAMBDA r : r.state = "done")
      m == [type |-> "toolResponse", n |-> task.n,
            functionResponses |-> [j \in 1..Len(done) |-> done[j].entry]]
      s1 == IF done # << >> THEN wsSend(s, task.ws, m) ELSE s
  IN IF AllToolsDone(task.res) THEN EndTask(s1, i) ELSE [s1 EXCEPT !.tasks[i].pc = "tools"]

\* Promise.all over the calls of task i: rejected, fulfilled or pending.
toolsSettle(s, i) ==
  LET res == s.tasks[i].res
  IN IF \E j \in 1..Len(res) : res[j].state = "threw" THEN handlerCatch(s, i)
     ELSE IF AllToolsDone(res) THEN toolsSend(s, i)
     ELSE [s EXCEPT !.tasks[i].pc = "tools"]

ToolFailed(r) == r.state = "done" /\ "error" \in DOMAIN r.entry.response

\* handleToolCalls(ws, functionCalls) up to the await of Promise.all.
handleToolCalls(s, i, functionCalls) ==
  LET res == [j \in 1..Len(functionCalls) |-> toolCallStart(functionCalls[j])]
      s1 == [s EXCEPT !.tasks[i].res = res]
      s2 == IF \E j \in 1..Len(res) : ToolFailed(res[j])
            THEN log(s1, "warn", "[tool] failed")
            ELSE IF \E j \in 1..Len(res) : res[j].state = "pending"
            THEN log(s1, "info", "[tool]")
            ELSE s1
  IN toolsSettle(s2, i)

\* stopSession(reason), run by handler i.
\* The test of stopSession without the readyState: `curWs` alone.
stopSessionIssuesAlways(s, curWs) == curWs # 0

\* stopSession: `curWs && curWs.readyState === WebSocket.OPEN`
stopSessionIssues(s, curWs) == IsOpen(s, curWs)

stopSession(s, i) ==
  LET s1 == log(s, "info", "[stop]")
      curWs == s1.wsRef
      s2 == IF stopSessionIssues(s1, curWs)
            THEN [wsClose(wsSend(s1, curWs, [type |-> "audioStreamEnd"]), curWs)
                    EXCEPT !.sockets[curWs].stopCloses = @ + 1]
            ELSE s1
  IN awaitFullCleanup([s2 EXCEPT !.tasks[i].kind = "stopSession"], i)

\* The merge with the closed utterance written over the last history entry.
mergeOutputOverwrite(s, text) ==
  LET prev == s.lastOutputTranscriptRef
      isContinuation == prev = << >> \/ StartsWith(text, prev) \/ StartsWith(prev, text)
      hist == s.outputHistoryRef
      hist2 == IF prev # << >> /\ ~isContinuation
               THEN IF hist = << >> THEN <<prev>> ELSE [hist EXCEPT ![Len(hist)] = prev]
               ELSE hist
      history == Join(hist2, <<"\n", "\n">>)
  IN [s EXCEPT !.outputHistoryRef = hist2,
               !.lastOutputTranscriptRef = text,
               !.outputTranscript =
                  IF history # << >> THEN history \o <<"\n", "\n">> \o text ELSE text]

\* The merge of an output fragment into lastOutputTranscriptRef / outputHistoryRef
\* and the outputTranscript shown.
mergeOutput(s, text) ==
  LET prev == s.lastOutputTranscriptRef
      isContinuation == prev = << >> \/ StartsWith(text, prev) \/ StartsWith(prev, text)
      hist == s.outputHistoryRef
      lastStored == IF hist = << >> THEN Null ELSE Some(hist[Len(hist)])
      hist2 == IF prev # << >> /\ ~isContinuation /\ Some(prev) # lastStored
               THEN Append(hist, prev) ELSE hist
      history == Join(hist2, <<"\n", "\n">>)
  IN [s EXCEPT !.outputHistoryRef = hist2,
               !.lastOutputTranscriptRef = text,
               !.outputTranscript =
                  IF history # << >> THEN history \o <<"\n", "\n">> \o text ELSE text]

(***************************************************************************)
(* Playback.  Inline audio data is [t |-> "string", chars |-> <<"b64">>,   *)
(* valid, bytes]: whether atob accepts it and the number of bytes it       *)
(* decodes to.  A mime type is a string whose pieces "audio/pcm" and       *)
(* "rate=" are single symbols.  Times are in 1/RECEIVE_SAMPLE_RATE s.      *)
(***************************************************************************)
TicksPerMs == RECEIVE_SAMPLE_RATE \div 1000

B64(valid, bytes) ==
  [t |-> "string", chars |-> <<"b64">>, valid |-> valid, bytes |-> bytes]

RECURSIVE DigitRun(_, _)
DigitRun(cs, i) ==
  IF i <= Len(cs) /\ cs[i] \in Digits THEN <<cs[i]>> \o DigitRun(cs, i + 1) ELSE << >>

\* /rate=(\d+)/.exec(mimeType): the rate, or RECEIVE_SAMPLE_RATE without a match.
MimeRate(mime) ==
  LET hits == {i \in 1..Len(mime) : mime[i] = "rate=" /\ DigitRun(mime, i + 1) # << >>}
  IN IF hits = {} THEN RECEIVE_SAMPLE_RATE
     ELSE DigitsVal(DigitRun(mime, (CHOOSE i \in hits : \A j \in hits : i <= j) + 1))

\* The length of resampleFloat32(input, inRate, outRate) for an input of len samples.
resampleLen(len, inRate, outRate) ==
  IF inRate = outRate THEN len ELSE (len * outRate) \div inRate

\* playPcmBase64 from arrayBufferFromBase64 on: throws, or schedules the buffer on
\* the context the task holds and moves playTimeRef.
playPcmDecode(s, i, data, mime) ==
  LET rate == MimeRate(mime)
      ctx == PlayCtx(s, s.tasks[i].ctx)
      n == data.bytes \div 2
      len == resampleLen(n, rate, RECEIVE_SAMPLE_RATE)
      startAt == Max(ctx.time, s.playTimeRef)
  IN IF data.t # "string" \/ ~data.valid \/ data.bytes % 2 # 0 \/ rate = 0 \/ len = 0
     THEN [threw |-> TRUE, s |-> s]
     ELSE [threw |-> FALSE,
           s |-> [s EXCEPT !.scheduled = Append(@, [ctx |-> ctx.id, startAt |-> startAt,
                                                    len |-> len]),
                           !.playTimeRef = startAt + len]]

\* part.inlineData ?? part.inline_data ?? part.inline_data?.inlineData ?? part.inlineData
InlineOf(p) ==
  Coalesce(Coalesce(Get(p, "inlineData"), Get(p, "inline_data")),
           Coalesce(Get(Get(p, "inline_data"), "inlineData"), Get(p, "inlineData")))

\* The end of handleMessage with a barge-in that resets the playback cursor.
handleInterruptedFlush(s, i) ==
  LET sc == Get(s.tasks[i].msg.json, "serverContent")
  IN EndTask(IF Truthy(Get(sc, "interrupted"))
             THEN [log(s, "info", "Model interrupted (barge-in).") EXCEPT !.playTimeRef = 0]
             ELSE s, i)

\* The end of handleMessage after the loop over the parts.
handleInterrupted(s, i) ==
  LET sc == Get(s.tasks[i].msg.json, "serverContent")
  IN EndTask(IF Truthy(Get(sc, "interrupted"))
             THEN log(s, "info", "Model interrupted (barge-in).") ELSE s, i)

TurnParts(msg) == Get(Get(Get(msg, "serverContent"), "modelTurn"), "parts")

\* The for loop over the parts of the turn, from part k on, in handler i.
RECURSIVE partsLoop(_, _, _)
partsLoop(s, i, k) ==
  LET parts == TurnParts(s.tasks[i].msg.json).items
  IN IF k > Len(parts) THEN handleInterrupted(s, i)
     ELSE IF ThrowsOnRead(parts[k]) THEN handlerCatch(s, i)
     ELSE LET inline == InlineOf(parts[k])
              data == Get(inline, "data")
              mime == Get(inline, "mimeType")
          IN IF ~(Truthy(data) /\ Truthy(mime)) THEN partsLoop(s, i, k + 1)
             ELSE IF mime.t # "string" THEN handlerCatch(s, i)
             ELSE IF ~StartsWith(mime.chars, <<"audio/pcm">>) THEN partsLoop(s, i, k + 1)
             ELSE IF s.playCtxRef = 0 THEN partsLoop(s, i, k + 1)
             ELSE LET s1 == [s EXCEPT !.tasks[i].ctx = s.playCtxRef, !.tasks[i].part = k]
                  IN IF PlayCtx(s1, s1.playCtxRef).state = "suspended"
                     THEN [s1 EXCEPT !.tasks[i].pc = "playResume"]
                     ELSE LET r == playPcmDecode(s1, i, data, mime.chars)
                          IN IF r.threw THEN handlerCatch(r.s, i)
                             ELSE partsLoop(r.s, i, k + 1)

\* Handler i after its await of ctx.resume() (settled either way).
playAfterResume(s, i) ==
  LET k == s.tasks[i].part
      inline == InlineOf(TurnParts(s.tasks[i].msg.json).items[k])
      r == playPcmDecode(s, i, Get(inline, "data"), Get(inline, "mimeType").chars)
  IN IF r.threw THEN handlerCatch(r.s, i) ELSE partsLoop(r.s, i, k + 1)

(***************************************************************************)
(* handleMessage: the transcript branches and the entry.                   *)
(***************************************************************************)
\* parts.map(p => typeof p?.text === "string" ? p.text : "").join("")
RECURSIVE PartsText(_)
PartsText(parts) ==
  IF parts = << >> THEN << >>
  ELSE LET t == Get(parts[1], "text")
       IN (IF t.t = "string" THEN t.chars ELSE << >>) \o PartsText(Tail(parts))

\* From `if (m.serverContent?.modelTurn?.parts?.length)` on; outputText is what
\* readFirstString found for the output transcription.
handleParts(s, i, outputText) ==
  LET parts == TurnParts(s.tasks[i].msg.json)
  IN IF parts.t = "array" /\ parts.items # << >> THEN
       LET combined == Trim(PartsText(parts.items))
           s1 == IF outputText = Null /\ combined # << >>
                    /\ combined # s.lastOutputTranscriptRef
                 THEN mergeOutput(s, combined) ELSE s
       IN partsLoop(s1, i, 1)
     ELSE IF parts.t = "string" /\ parts.chars # << >> THEN
       \* a string has a length and no map()
       IF outputText = Null THEN handlerCatch(s, i) ELSE handleInterrupted(s, i)
     ELSE handleInterrupted(s, i)

\* The output-transcription branch and what follows it.
handleOutput(s, i) ==
  LET outputText == readFirstString(s.tasks[i].msg.json, OutputPaths)
  IN IF outputText # Null /\ outputText[1].chars # s.lastOutputTranscriptRef THEN
       LET s1 == mergeOutput(log(s, "info", "[ARI]"), outputText[1].chars)
       IN IF stopSequenceRegexTest(outputText[1].chars) THEN stopSession(s1, i)
          ELSE handleParts(s1, i, outputText)
     ELSE handleParts(s, i, outputText)

\* The input-transcription branch and what follows it.
handleInput(s, i) ==
  LET inputText == readFirstString(s.tasks[i].msg.json, InputPaths)
  IN IF inputText # Null /\ inputText[1].chars # s.lastInputTranscriptRef THEN
       LET s1 == log([s EXCEPT !.lastInputTranscriptRef = inputText[1].chars,
                               !.inputTranscript = inputText[1].chars], "info", "[ME]")
       IN IF stopSequenceRegexTest(inputText[1].chars) THEN stopSession(s1, i)
          ELSE handleOutput(s1, i)
     ELSE handleOutput(s, i)

\* handleMessage from JSON.parse on, in handler i.
handleParsed(s, i) ==
  LET evt == s.tasks[i].msg
      msg == evt.json
      s1 == [s EXCEPT !.lastServerMessageType = detectServerMessageType(msg)]
      maybeGoAway == Coalesce(Get(msg, "goAway"), Get(msg, "go_away"))
      fcs == extractFunctionCalls(msg)
  IN IF ~evt.parses THEN handlerCatch(s, i)
     ELSE IF Truthy(Get(maybeGoAway, "timeLeft")) \/ Truthy(Get(maybeGoAway, "time_left"))
     THEN EndTask(handleGoAway(s1, maybeGoAway), i)
     ELSE IF fcs.threw THEN handlerCatch(s1, i)
     ELSE IF fcs.calls # Null /\ fcs.calls[1] # << >>
     THEN handleToolCalls(s1, i, fcs.calls[1])
     ELSE handleInput(s1, i)

\* handleMessage(evt) for the n-th message event, run as task i.
handleMessage(s, i, n, evt) ==
  IF s.wsRef = 0 THEN s
  ELSE LET s1 == SetTask(s, i, [Task("handler", "start") EXCEPT !.ws = s.wsRef, !.n = n,
                                                                !.msg = evt])
       IN IF evt.blob THEN [s1 EXCEPT !.tasks[i].pc = "blob"] ELSE handleParsed(s1, i)

(***************************************************************************)
(* The microphone.  A resampled chunk is [from, len]: samples from ..      *)
(* from + len - 1 of the resampled stream since the send buffer was        *)
(* emptied.  A processor is [id, ctx, rate]: its context and sample rate.  *)
(***************************************************************************)
NewId(used) == CHOOSE i \in 1..(Cardinality(used) + 1) : i \notin used /\ \A j \in 1..(i - 1) : j \in used

\* sendUserText(text)
sendUserText(s, text) ==
  IF ~IsOpen(s, s.wsRef) THEN log(s, "warn", "WebSocket not ready to send text.")
  ELSE wsSend(s, s.wsRef, [type |-> "clientContent", text |-> text])

\* sendAudioFrame(pcm16)
sendAudioFrame(s, frame) ==
  IF ~IsOpen(s, s.wsRef) THEN [s EXCEPT !.capDropped = @ + 1]
  ELSE wsSend([s EXCEPT !.capSent = @ + 1], s.wsRef, frame)

FrameReadyAny(n) == n > 0
FrameReadyStrict(n) == n > FRAME_SAMPLES

\* The condition of the outer while loop of onaudioprocess.
FrameReady(n) == n >= FRAME_SAMPLES

\* The inner while loop: fills the frame from the head of the buffer.
RECURSIVE fillFrame(_, _, _)
fillFrame(buf, written, parts) ==
  IF written < FRAME_SAMPLES /\ buf # << >> THEN
    LET head == buf[1]
        need == FRAME_SAMPLES - written
    IN IF head.len <= need
       THEN fillFrame(Tail(buf), written + head.len, Append(parts, head))
       ELSE fillFrame(<<[from |-> head.from + need, len |-> head.len - need]>> \o Tail(buf),
                      written + need, Append(parts, [from |-> head.from, len |-> need]))
  ELSE [buf |-> buf, written |-> written, parts |-> parts]

\* The outer while loop: one frame of FRAME_SAMPLES samples per turn, converted by
\* floatToInt16PCM (as many samples) and handed to sendAudioFrame.
RECURSIVE drainFrames(_)
drainFrames(s) ==
  IF FrameReady(s.sendBufSamplesRef) THEN
    LET f == fillFrame(s.sendBufRef, 0, << >>)
        s1 == [s EXCEPT !.sendBufRef = f.buf,
                        !.sendBufSamplesRef = @ - FRAME_SAMPLES,
                        !.capFrames = @ + 1]
        frame == [type |-> "audio", samples |-> FRAME_SAMPLES, written |-> f.written,
                  parts |-> f.parts]
    IN drainFrames(sendAudioFrame(s1, frame))
  ELSE s

\* onaudioprocess with the chunk put at the head of the buffer.
onaudioprocessUnshift(s, p, inputLen) ==
  LET len == resampleLen(inputLen, p.rate, SEND_SAMPLE_RATE)
      chunk == [from |-> s.capTotal + 1, len |-> len]
  IN drainFrames([s EXCEPT !.sendBufRef = <<chunk>> \o @,
                           !.sendBufSamplesRef = @ + len,
                           !.capTotal = @ + len])

\* processor.onaudioprocess of processor p for an input of inputLen samples.
onaudioprocess(s, p, inputLen) ==
  LET len == resampleLen(inputLen, p.rate, SEND_SAMPLE_RATE)
      chunk == [from |-> s.capTotal + 1, len |-> len]
  IN drainFrames([s EXCEPT !.sendBufRef = Append(@, chunk),
                           !.sendBufSamplesRef = @ + len,
                           !.capTotal = @ + len])

\* startMic: the catch block.
startMicCatch(s, i) ==
  awaitCleanupAudio([log(s, "error", "Mic start failed") EXCEPT !.tasks[i].kind = "startMicFail"], i)

\* startMic from getBossGreeting() to the await of getUserMedia.
startMicGreet(s, i) ==
  LET s1 == sendUserText(log(s, "info", "[ME] (greet)"), "greeting")
  IN [log(s1, "info", "Requesting microphone permission") EXCEPT !.tasks[i].pc = "getUserMedia"]

\* startMic up to its first await; a playback context it creates starts suspended
\* or running.
startMic(s, i, suspended) ==
  IF ~s.connected THEN log(s, "warn", "Connect first.")
  ELSE IF s.streaming THEN log(s, "info", "Mic already streaming.")
  ELSE LET id == NewId({c.id : c \in s.playCtxs})
           s1 == IF s.playCtxRef = 0
                 THEN [s EXCEPT !.playCtxs = @ \cup
                                  {[id |-> id, time |-> 0,
                                    state |-> IF suspended THEN "suspended" ELSE "running"]},
                                !.playCtxRef = id,
                                !.playTimeRef = 0]
                 ELSE s
           s2 == SetTask(s1, i, [Task("startMic", "resume") EXCEPT !.ctx = s1.playCtxRef])
       IN IF PlayCtx(s2, s2.playCtxRef).state = "suspended" THEN s2
          ELSE startMicGreet(s2, i)

\* startMic after getUserMedia resolved, with a capture context of the given rate.
startMicSetup(s, i, rate) ==
  LET stream == NewId(s.streams \cup {s.micStreamRef})
      ctx == NewId(s.audioCtxs \cup {s.audioCtxRef})
      proc == NewId({p.id : p \in s.procs} \cup {s.processorRef})
      s1 == [s EXCEPT !.streams = @ \cup {stream},
                      !.micStreamRef = stream,
                      !.audioCtxs = @ \cup {ctx},
                      !.audioCtxRef = ctx,
                      !.sourceNodeRef = ctx,
                      !.procs = @ \cup {[id |-> proc, ctx |-> ctx, rate |-> rate]},
                      !.processorRef = proc,
                      !.sendBufRef = << >>,
                      !.sendBufSamplesRef = 0,
                      !.capTotal = 0, !.capFrames = 0, !.capSent = 0, !.capDropped = 0,
                      !.streaming = TRUE]
  IN EndTask(log(s1, "info", "Mic streaming started. Speak!"), i)

\* The steps of startMic after getUserMedia at which the browser can throw.
SetupSteps == {"context", "source", "processor"}

\* startMic after getUserMedia resolved, when `new AudioCtx()`,
\* createMediaStreamSource or createScriptProcessor throws: the refs assigned up
\* to there, then the catch block.
startMicSetupFails(s, i, at) ==
  LET stream == NewId(s.streams \cup {s.micStreamRef})
      ctx == NewId(s.audioCtxs \cup {s.audioCtxRef})
      s1 == [s EXCEPT !.streams = @ \cup {stream}, !.micStreamRef = stream]
      s2 == IF at = "context" THEN s1
            ELSE [s1 EXCEPT !.audioCtxs = @ \cup {ctx}, !.audioCtxRef = ctx]
      s3 == IF at = "processor" THEN [s2 EXCEPT !.sourceNodeRef = ctx] ELSE s2
  IN startMicCatch(s3, i)

\* stopMic(), run as task i.
stopMic(s, i) == awaitCleanupAudio(SetTask(s, i, Task("stopMic", "start")), i)

\* disconnect(), run as task i.
disconnect(s, i) == awaitFullCleanup(SetTask(s, i, Task("disconnect", "start")), i)

(***************************************************************************)
(* The actions: the calls of the hook's functions by the component, and    *)
(* the events of the browser (sockets, promises, timers, audio callbacks). *)
(***************************************************************************)
HasSlot == FreeSlots(S) # {}
AtPc(i, kinds, pc) == S.tasks[i].kind \in kinds /\ S.tasks[i].pc = pc

\* connect() is called (by the component, or by the autoConnect effect).
Connect ==
  /\ HasSlot
  /\ S.ops < MaxOps
  /\ S' = connectStart([S EXCEPT !.ops = @ + 1], FreeSlot(S))
  /\ UNCHANGED opt

ConnectKinds == {"connect", "goAwayReconnect", "sessionReconnect"}

\* What fetch() and res.json() of the token request come to, as for postJson.
TokenGranted ==
  [net |-> TRUE, ok |-> TRUE, status |-> 200, data |-> JObj([token |-> Sym("token")])]
TokenRefused == [net |-> TRUE, ok |-> FALSE, status |-> 500, data |-> JUndef]
TokenOutcomes ==
  { TokenGranted,
    [net |-> FALSE, ok |-> FALSE, status |-> 0, data |-> JUndef],
    [net |-> TRUE, ok |-> TRUE, status |-> 200, data |-> JObj(<< >>)],
    [net |-> TRUE, ok |-> FALSE, status |-> 403,
     data |-> JObj([token |-> Sym("token"), error |-> Sym("Forbidden")])] }

\* fetchEphemeralToken without the test of res.ok: any body with a token will do.
fetchEphemeralTokenAnyBody(http) ==
  IF ~http.net THEN [threw |-> TRUE, message |-> Sym("Failed to fetch")]
  ELSE [threw |-> ~Truthy(Get(http.data, "token")), message |-> Sym(""),
        token |-> Get(http.data, "token")]

\* fetchEphemeralToken after fetch(): [threw, message] or [threw |-> FALSE, token].
fetchEphemeralToken(http) ==
  LET data == IF http.data.t = "undefined" THEN JObj(<< >>) ELSE http.data
  IN IF ~http.net THEN [threw |-> TRUE, message |-> Sym("Failed to fetch")]
     ELSE IF ~http.ok \/ ~Truthy(Get(data, "token"))
     THEN [threw |-> TRUE,
           message |-> OrElse(Get(data, "error"), Sym("Failed to create ephemeral token."))]
     ELSE [threw |-> FALSE, token |-> Get(data, "token")]

\* The token request of connect() in task i settles with http.
TokenResponse(i, http) ==
  /\ AtPc(i, ConnectKinds, "token")
  /\ LET r == fetchEphemeralToken(http)
         s1 == [S EXCEPT !.tokens = Append(@, http)]
     IN IF r.threw THEN S' = connectCatch(s1, i)
        ELSE UnusedSockets(S) # {} /\ S' = connectOpenSocket(s1, i)
  /\ UNCHANGED opt

\* fetchEphemeralToken() resolves.
TokenOk(i) == TokenResponse(i, TokenGranted)

\* fetchEphemeralToken() rejects.
TokenFail(i) == TokenResponse(i, TokenRefused)

\* The open event of socket w.
WsOpen(w) ==
  /\ S.sockets[w].readyState = "CONNECTING"
  /\ S' = onopen([S EXCEPT !.sockets[w].readyState = "OPEN"], w)
  /\ UNCHANGED opt

\* The close event of socket w, after an error event or without one.
WsClosed(w, withError) ==
  /\ S.sockets[w].readyState \in {"CONNECTING", "OPEN", "CLOSING"}
  /\ LET s1 == [S EXCEPT !.sockets[w].readyState = "CLOSED"]
     IN S' = onclose(IF withError THEN onerror(s1) ELSE s1)
  /\ UNCHANGED opt

\* disconnect() is called.
Disconnect ==
  /\ HasSlot
  /\ S.ops < MaxOps
  /\ S' = disconnect([S EXCEPT !.ops = @ + 1], FreeSlot(S))
  /\ UNCHANGED opt

\* A message event of some socket, one of at most max: ws.onmessage calls
\* handleMessage(evt).
DeliverUpTo(evt, max) ==
  /\ HasSlot
  /\ S.msgCount < max
  /\ \E w \in 1..MaxWs : S.sockets[w].readyState \in {"OPEN", "CLOSING"}
  /\ LET n == S.msgCount + 1
         calls == extractFunctionCalls(evt.json).calls
         rec == [evt |-> evt, ws |-> S.wsRef,
                 http |-> IF calls = Null THEN << >>
                          ELSE [j \in 1..Len(calls[1]) |-> [net |-> FALSE, ok |-> FALSE,
                                                            status |-> -1, data |-> JUndef]]]
         s1 == [S EXCEPT !.msgCount = n, !.delivered = Append(@, rec)]
     IN S' = handleMessage(s1, FreeSlot(S), n, evt)
  /\ UNCHANGED opt

Deliver(evt) == DeliverUpTo(evt, MaxMsgs)

\* evt.data.text() of a Blob message resolves.
BlobDone(i) ==
  /\ AtPc(i, {"handler"}, "blob")
  /\ S' = handleParsed(S, i)
  /\ UNCHANGED opt

\* The collaborator answers call j of the batch of handler i with http.
ToolResolve(i, j, http) ==
  /\ AtPc(i, {"handler"}, "tools")
  /\ j \in 1..Len(S.tasks[i].res)
  /\ S.tasks[i].res[j].state = "pending"
  /\ LET r == toolCallFinish(S.tasks[i].res[j], http)
         s1 == [S EXCEPT !.tasks[i].res[j] = r,
                         !.delivered[S.tasks[i].n].http[j] = http]
         s2 == IF ToolFailed(r) THEN log(s1, "warn", "[tool] failed") ELSE s1
     IN S' = toolsSettle(s2, i)
  /\ UNCHANGED opt

\* close() of the capture context settles.
AudioCloseDone(i) ==
  /\ S.tasks[i].kind # "none" /\ S.tasks[i].pc = "audioClose"
  /\ S' = afterCleanupAudio(cleanupAudioAfter(S), i)
  /\ UNCHANGED opt

\* close() of the playback context settles.
PlayCloseDone(i) ==
  /\ S.tasks[i].kind # "none" /\ S.tasks[i].pc = "playClose"
  /\ S' = afterFullCleanup(fullCleanupTail(S), i)
  /\ UNCHANGED opt

\* startMic() is called; a playback context it creates starts suspended or not.
StartMic(suspended) ==
  /\ HasSlot
  /\ S.ops < MaxOps
  /\ S' = startMic([S EXCEPT !.ops = @ + 1], FreeSlot(S), suspended)
  /\ UNCHANGED opt

\* resume() of the playback context awaited by startMic settles.
MicResumeDone(i, ok) ==
  /\ AtPc(i, {"startMic"}, "resume")
  /\ LET id == S.tasks[i].ctx
         resumes == ok /\ PlayCtx(S, id).state = "suspended"
     IN S' = IF resumes THEN startMicGreet(SetPlayCtxState(S, id, "running"), i)
             ELSE IF ok THEN startMicGreet(S, i)
             ELSE startMicCatch(S, i)
  /\ UNCHANGED opt

CaptureRates == {SEND_SAMPLE_RATE, 48000}

\* getUserMedia resolves; the capture context runs at some rate.
GumOk(i, rate) ==
  /\ AtPc(i, {"startMic"}, "getUserMedia")
  /\ S' = startMicSetup(S, i, rate)
  /\ UNCHANGED opt

\* getUserMedia resolves and the setup of the capture graph throws.
SetupFail(i, at) ==
  /\ AtPc(i, {"startMic"}, "getUserMedia")
  /\ S' = startMicSetupFails(S, i, at)
  /\ UNCHANGED opt

\* getUserMedia rejects.
GumFail(i) ==
  /\ AtPc(i, {"startMic"}, "getUserMedia")
  /\ S' = startMicCatch(S, i)
  /\ UNCHANGED opt

\* stopMic() is called.
StopMic ==
  /\ HasSlot
  /\ S.ops < MaxOps
  /\ S' = stopMic([S EXCEPT !.ops = @ + 1], FreeSlot(S))
  /\ UNCHANGED opt

ChunkSizes == {0, 3, 960, SCRIPT_PROCESSOR_BUFFER}

\* An audioprocess event of a connected processor.
AudioProcess(p, inputLen) ==
  /\ p \in S.procs
  /\ S.callbacks < MaxCallbacks
  /\ S' = onaudioprocess([S EXCEPT !.callbacks = @ + 1], p, inputLen)
  /\ UNCHANGED opt

\* resume() of the playback context awaited by playPcmBase64 settles.
PlayResumeDone(i, ok) ==
  /\ AtPc(i, {"handler"}, "playResume")
  /\ LET id == S.tasks[i].ctx
     IN S' = playAfterResume(IF ok /\ PlayCtx(S, id).state = "suspended"
                             THEN SetPlayCtxState(S, id, "running") ELSE S, i)
  /\ UNCHANGED opt

(***************************************************************************)
(* Time.  A timer's callback runs when its time has come, before time goes *)
(* on; an interval is armed again for COUNTDOWN_INTERVAL_MS later.         *)
(***************************************************************************)
Due(t) == S.now >= t.due
Rearm(s, t) ==
  [s EXCEPT !.timers = (@ \ {t}) \cup {[t EXCEPT !.due = s.now + COUNTDOWN_INTERVAL_MS]}]
Expire(s, t) == [s EXCEPT !.timers = @ \ {t}]

SessionCountdownFire(t) ==
  /\ t \in S.timers /\ t.kind = "sessionCountdown" /\ Due(t)
  /\ S' = sessionCountdownTick(Rearm(S, t))
  /\ UNCHANGED opt

GoAwayCountdownFire(t) ==
  /\ t \in S.timers /\ t.kind = "goAwayCountdown" /\ Due(t)
  /\ S' = goAwayCountdownTick(Rearm(S, t), t.start, t.ms)
  /\ UNCHANGED opt

GoAwayTimerFire(t) ==
  /\ t \in S.timers /\ t.kind = "goAwayTimer" /\ Due(t)
  /\ HasSlot
  /\ S' = [goAwayReconnect(Expire(S, t), FreeSlot(S)) EXCEPT
            !.goAwayFired = Some([delay |-> S.now - t.start, streaming |-> S.streaming])]
  /\ UNCHANGED opt

SessionReconnectFire(t) ==
  /\ t \in S.timers /\ t.kind = "sessionReconnect" /\ Due(t)
  /\ HasSlot
  /\ S' = sessionReconnect(Expire(S, t), FreeSlot(S))
  /\ UNCHANGED opt

TimeSteps == {COUNTDOWN_INTERVAL_MS}

\* Time passes: by one of the steps, or up to the next timer if that is sooner.
\* (Without a timer nothing depends on the time, and it stands still.)
Advance(dt) ==
  /\ S.timers # {}
  /\ \A t \in S.timers : ~Due(t)
  /\ LET dues == {t.due : t \in S.timers}
         next == IF \E d \in dues : d < S.now + dt
                 THEN CHOOSE d \in dues : \A e \in dues : d <= e
                 ELSE S.now + dt
         passed == (next - S.now) * TicksPerMs
     IN /\ next <= MaxTime
        /\ S' = [S EXCEPT !.now = next,
                          !.playCtxs = {IF c.state = "running"
                                        THEN [c EXCEPT !.time = @ + passed] ELSE c : c \in @}]
  /\ UNCHANGED opt

(***************************************************************************)
(* The specifications.  Each one runs the hook with the options of the     *)
(* component and a part of its environment.                                *)
(***************************************************************************)
Slots == 1..MaxTasks
Sockets == 1..MaxWs

\* useGeminiLiveSession(options) with the defaults of constants.ts.
DefaultOptions ==
  [goAwayAutoReconnect |-> GO_AWAY_AUTO_RECONNECT_DEFAULT,
   goAwayReconnectBeforeMs |-> GO_AWAY_RECONNECT_BEFORE_MS_DEFAULT,
   sessionMaxDurationMs |-> SESSION_MAX_DURATION_MS_DEFAULT]

Init == S = InitS /\ opt = DefaultOptions

\* Connecting and disconnecting.
ConnectionNext ==
  \/ Connect
  \/ \E i \in Slots : TokenOk(i) \/ TokenFail(i)
  \/ \E w \in Sockets : WsOpen(w)
  \/ \E w \in Sockets, withError \in BOOLEAN : WsClosed(w, withError)
  \/ Disconnect

Next == ConnectionNext

Spec == Init /\ [][Next]_vars

\* Capturing: the microphone, its callbacks and the transport the frames go to.
CaptureNext ==
  \/ Connect
  \/ \E i \in Slots : TokenOk(i)
  \/ \E w \in Sockets : WsOpen(w) \/ WsClosed(w, FALSE)
  \/ StartMic(FALSE)
  \/ \E i \in Slots, rate \in CaptureRates : GumOk(i, rate)
  \/ StopMic
  \/ \E i \in Slots : AudioCloseDone(i)
  \/ \E p \in S.procs, inputLen \in ChunkSizes : AudioProcess(p, inputLen)

SpecCapture == Init /\ [][CaptureNext]_vars

\* The messages of the tool specification: batches of calls that succeed, fail at
\* once (no name, unknown tool) or wait for the collaborator, and a stop phrase.
Ev(json) == [blob |-> FALSE, parses |-> TRUE, json |-> json]
Str(chars) == JStr(chars)
CallSearch ==
  JObj([id |-> Sym("call-a"), name |-> Sym("web_search"),
        args |-> JObj([query |-> Sym("weather")])])
CallUnknown == JObj([id |-> Sym("call-b"), name |-> Sym("set_alarm")])
CallGeocodeNoId ==
  JObj([name |-> Sym("maps_geocode"), args |-> JObj([address |-> Sym("Manila")])])
CallNoName == JObj([id |-> Sym("call-d"), args |-> JObj(<< >>)])

ToolEvents ==
  { Ev(JObj([toolCall |-> JObj([functionCalls |-> JArr(<<CallSearch, CallGeocodeNoId>>)])])),
    Ev(JObj([tool_call |->
               JObj([function_calls |-> JArr(<<CallNoName, CallSearch, CallUnknown>>)])])),
    Ev(JObj([serverContent |->
               JObj([inputTranscription |-> JObj([text |-> Str(<<"B", "y", "e", "!">>)])])])) }

\* The go-away messages: the two spellings, the string and the object form of the
\* duration, and a negative one.
GoAway(timeLeft) == Ev(JObj([goAway |-> JObj([timeLeft |-> timeLeft])]))
GoAwayEvents ==
  { GoAway(Str(<<"0", ".", "5", "s">>)),
    Ev(JObj([go_away |-> JObj([time_left |->
                                 JObj([seconds |-> JNum(0), nanos |-> JNum(250000000)])])])),
    GoAway(Str(<<"-", "1", "s">>)) }

GoAwayOptions ==
  { [DefaultOptions EXCEPT !.goAwayReconnectBeforeMs = 250],
    [DefaultOptions EXCEPT !.goAwayReconnectBeforeMs = -500],
    [DefaultOptions EXCEPT !.goAwayAutoReconnect = FALSE] }

InitGoAway == S = InitS /\ opt \in GoAwayOptions

\* Go-away: the server announces the end of the session while time passes.
GoAwayNext ==
  \/ Connect
  \/ \E i \in Slots : TokenOk(i)
  \/ \E w \in Sockets : WsOpen(w)
  \/ StartMic(FALSE)
  \/ \E i \in Slots : GumOk(i, SEND_SAMPLE_RATE)
  \/ \E i \in Slots : AudioCloseDone(i)
  \/ \E evt \in GoAwayEvents : Deliver(evt)
  \/ \E t \in S.timers : SessionCountdownFire(t) \/ GoAwayCountdownFire(t) \/ GoAwayTimerFire(t)
  \/ \E dt \in TimeSteps : Advance(dt)

SpecGoAway == InitGoAway /\ [][GoAwayNext]_vars

\* What the collaborator answers in the tool specification.
ToolOutcomes == {h \in HttpOutcomes : h.status \in {200, 400}}

\* Tool calls: batches arrive, the collaborator answers, the transport comes and
\* goes.
ToolsNext ==
  \/ Connect
  \/ \E i \in Slots : TokenOk(i)
  \/ \E w \in Sockets : WsOpen(w) \/ WsClosed(w, FALSE)
  \/ Disconnect
  \/ \E evt \in ToolEvents : Deliver(evt)
  \/ \E i \in Slots, j \in 1..MaxBatch, http \in ToolOutcomes : ToolResolve(i, j, http)

SpecTools == Init /\ [][ToolsNext]_vars

(***************************************************************************)
(* The properties.                                                         *)
(***************************************************************************)
LiveSockets(s) == {w \in Sockets : s.sockets[w].readyState \in {"CONNECTING", "OPEN"}}

\* C1: whatever the interleaving of connect() calls, at most one transport of the
\* engine is open or opening at any time.
C1_AtMostOneTransport == Cardinality(LiveSockets(S)) <= 1

SentOn(s, w) == s.sockets[w].sent
Range(f) == {f[k] : k \in DOMAIN f}
AllSent(s) == UNION {Range(SentOn(s, w)) : w \in Sockets}
AudioFrames(s) == {m \in AllSent(s) : m.type = "audio"}

RECURSIVE SumLen(_)
SumLen(chunks) == IF chunks = << >> THEN 0 ELSE chunks[1].len + SumLen(Tail(chunks))

\* C2: every audio frame handed to the transport holds exactly FRAME_SAMPLES
\* samples, all of them captured ones, whatever the sizes of the capture callbacks
\* and also after capture stopped with samples left over.
C2_FramesAreFull ==
  \A m \in AudioFrames(S) :
    m.samples = FRAME_SAMPLES /\ m.written = FRAME_SAMPLES /\ SumLen(m.parts) = FRAME_SAMPLES

\* A frame made of several chunks, one of them empty, has been sent, and capture
\* has stopped with samples left in the buffer.
C2_Witness ==
  /\ \E m \in AudioFrames(S) : Len(m.parts) >= 2 /\ \E k \in 1..Len(m.parts) : m.parts[k].len = 0
  /\ ~S.streaming /\ S.processorRef = 0
  /\ S.sendBufSamplesRef > 0

\* C3: since startMic emptied the buffer, the frames assembled number
\* floor(total / FRAME_SAMPLES), the buffer holds total mod FRAME_SAMPLES samples,
\* the counter is the sum of the buffered chunks' lengths, and with the transport
\* open at every frame as many frames were sent.
C3_FrameCount ==
  /\ S.sendBufSamplesRef = SumLen(S.sendBufRef)
  /\ S.sendBufSamplesRef = S.capTotal % FRAME_SAMPLES
  /\ S.capFrames = S.capTotal \div FRAME_SAMPLES
  /\ S.capDropped = 0 => S.capSent = S.capTotal \div FRAME_SAMPLES

\* Several callbacks gave a whole number of frames and more, all sent, with a
\* rest in the buffer.
C3_Witness ==
  /\ S.callbacks >= 2
  /\ S.capDropped = 0 /\ S.capSent >= 2
  /\ S.sendBufSamplesRef > 0

\* What was handed to send() of socket w: queued, or discarded by a closed socket.
HandedTo(s, w) == s.sockets[w].sent \o s.sockets[w].discarded
ToolResponses(s) ==
  UNION {{m \in Range(HandedTo(s, w)) : m.type = "toolResponse"} : w \in Sockets}

\* The number of tool responses for message n handed to a socket.
ResponseCount(s, n) ==
  Cardinality({<<w, k>> \in Sockets \X (1..(MaxMsgs + MaxOps + 1)) :
                 /\ k <= Len(HandedTo(s, w))
                 /\ HandedTo(s, w)[k].type = "toolResponse"
                 /\ HandedTo(s, w)[k].n = n})

\* The calls of the batch that message n carried (none: no batch).
BatchOf(s, n) ==
  LET fcs == extractFunctionCalls(s.delivered[n].evt.json)
  IN IF fcs.calls = Null THEN << >> ELSE fcs.calls[1]

KnownTools == {"maps_geocode", "maps_search_places", "maps_directions", "web_search"}

\* Whether call j of message n failed: no name, a tool that does not exist, or a
\* collaborator that could not be reached or answered with an error status.
CallFailed(s, n, j) ==
  LET fc == BatchOf(s, n)[j]
      name == Get(fc, "name")
      http == s.delivered[n].http[j]
  IN \/ name.t # "string" \/ name.chars = << >>
     \/ \A k \in KnownTools : name.chars # <<k>>
     \/ ~http.net \/ ~http.ok

\* C4: a tool response has one entry per call of its batch, in the order of the
\* batch, each with the id of its call (a fresh id for a call without one), an
\* error and no output for a failed call, an output and no error for the others.
C4_ResponseEntries ==
  \A m \in ToolResponses(S) :
    LET calls == BatchOf(S, m.n)
    IN /\ Len(m.functionResponses) = Len(calls)
       /\ \A j \in 1..Len(calls) :
            LET e == m.functionResponses[j]
                id == Get(calls[j], "id")
            IN /\ e.id = (IF Truthy(id) THEN id ELSE GeneratedId)
               /\ DOMAIN e.response = (IF CallFailed(S, m.n, j) THEN {"error"} ELSE {"output"})

\* A response to a batch of three with failed and successful calls.
C4_Witness ==
  \E m \in ToolResponses(S) :
    /\ Len(m.functionResponses) = 3
    /\ \E j, k \in 1..3 : /\ "error" \in DOMAIN m.functionResponses[j].response
                          /\ "output" \in DOMAIN m.functionResponses[k].response

HandlerOf(s, n) == {i \in Slots : s.tasks[i].kind # "none" /\ s.tasks[i].n = n}

EngineState(s) ==
  <<s.connected, s.streaming, s.inputTranscript, s.outputTranscript, s.goAwayTimeLeftMs,
    s.goAwayTimeLeftSource, s.lastServerMessageType, s.lastLog, s.wsRef, s.goAwaySeenRef,
    s.lastInputTranscriptRef, s.lastOutputTranscriptRef, s.outputHistoryRef,
    s.playTimeRef, s.goAwayTimerRef, s.goAwayCountdownRef>>

HandlerInFlight(s) == \E i \in Slots : s.tasks[i].kind \in {"handler", "stopSession"}

\* C6: messages are handled in arrival order: while the handler of an earlier
\* message has not finished, the arrival of a later message changes nothing of
\* the engine's state.
C6_ArrivalOrder ==
  [][(HandlerInFlight(S) /\ S'.msgCount > S.msgCount) => EngineState(S') = EngineState(S)]_vars

\* C7: no tool response is sent on a socket that is no longer the one wsRef holds.
C7_NoStaleSend == S.staleSends = {}

\* The go-away that a step handles, if it handles one: Null or <<ms>>.
GoAwayHandled(s, s2) ==
  IF s2.msgCount > s.msgCount /\ s.wsRef # 0 /\ s2.delivered[s2.msgCount].evt.parses
  THEN LET msg == s2.delivered[s2.msgCount].evt.json
           goAway == Coalesce(Get(msg, "goAway"), Get(msg, "go_away"))
       IN durationToMs(Coalesce(Get(goAway, "timeLeft"), Get(goAway, "time_left")))
  ELSE Null

\* The session of the socket in wsRef goes on through the step.
SessionGoesOn(s, s2) == IsOpen(s, s.wsRef) /\ s2.wsRef = s.wsRef /\ IsOpen(s2, s2.wsRef)

\* C8: a go-away of D ms exposes D with source "server"; from then on, while the
\* session goes on and no other go-away comes, the value exposed never grows and
\* does not go below 0.
C8_ServerCountdown ==
  [][/\ GoAwayHandled(S, S') # Null =>
          /\ S'.goAwayTimeLeftMs = GoAwayHandled(S, S')
          /\ S'.goAwayTimeLeftSource = "server"
     /\ (/\ S.goAwayTimeLeftSource = "server"
         /\ SessionGoesOn(S, S')
         /\ GoAwayHandled(S, S') = Null) =>
          /\ S'.goAwayTimeLeftSource = "server"
          /\ S'.goAwayTimeLeftMs # Null
          /\ S'.goAwayTimeLeftMs[1] <= S.goAwayTimeLeftMs[1]
          /\ S'.goAwayTimeLeftMs[1] >= 0]_vars

TimersOf(s, kind) == {t \in s.timers : t.kind = kind}

\* The reconnect timer of a go-away has run its callback in the step.
GoAwayTimerFired(s, s2) ==
  /\ TimersOf(s, "goAwayTimer") # {} /\ TimersOf(s2, "goAwayTimer") = {}
  /\ s2.lastLog.msg = "Reconnecting (server GoAway)..."

\* The step has released the capture the engine held: the stream is stopped, the
\* processor disconnected, the context closing, the refs to stream and nodes null.
CaptureReleased(s, s2) ==
  /\ ~s2.streaming /\ s2.micStreamRef = 0 /\ s2.processorRef = 0 /\ s2.sourceNodeRef = 0
  /\ s.micStreamRef \notin s2.streams
  /\ s.audioCtxRef \notin s2.audioCtxs
  /\ \A p \in s2.procs : p.id # s.processorRef

\* C9: with auto-reconnect, a parsed go-away of D ms has exactly one reconnect
\* timer, due max(0, D - max(0, lead)) ms after the go-away; the timer runs then,
\* releases the capture audio and, once the capture context has closed, closes
\* the transport and calls connect(); without auto-reconnect there is no timer.
C9_GoAwayReconnect ==
  /\ [](/\ Cardinality(TimersOf(S, "goAwayTimer")) <= 1
        /\ ~opt.goAwayAutoReconnect => TimersOf(S, "goAwayTimer") = {}
        /\ opt.goAwayAutoReconnect =>
             \A c \in TimersOf(S, "goAwayCountdown") : \E t \in TimersOf(S, "goAwayTimer") :
               LET lead == IF opt.goAwayReconnectBeforeMs > 0
                           THEN opt.goAwayReconnectBeforeMs ELSE 0
               IN t.due = c.start + (IF c.ms - lead > 0 THEN c.ms - lead ELSE 0))
  /\ [][/\ (GoAwayHandled(S, S') # Null /\ opt.goAwayAutoReconnect) =>
             Cardinality(TimersOf(S', "goAwayTimer")) = 1
        /\ GoAwayTimerFired(S, S') =>
             /\ \A t \in TimersOf(S, "goAwayTimer") : S.now = t.due
             /\ CaptureReleased(S, S')
             /\ \E i \in Slots :
                  \/ S'.tasks[i].kind = "goAwayReconnect" /\ S'.tasks[i].pc = "audioClose"
                  \/ /\ S'.tasks[i].kind = "connect" /\ S'.tasks[i].pc = "token"
                     /\ S'.wsRef = 0 /\ ~IsOpen(S', S.wsRef)
        /\ \A i \in Slots :
             (S.tasks[i].kind = "goAwayReconnect" /\ S'.tasks[i].kind # "goAwayReconnect") =>
                /\ S'.tasks[i].kind = "connect" /\ S'.tasks[i].pc = "token"
                /\ S'.wsRef = 0 /\ ~IsOpen(S', S.wsRef)]_vars

\* The reconnect of a go-away has released a running capture, closed the
\* transport and called connect().
C9_Witness ==
  /\ S.goAwayFired # Null
  /\ S.goAwayFired[1].delay > 0 /\ S.goAwayFired[1].streaming
  /\ ~S.streaming /\ S.micStreamRef = 0 /\ S.audioCtxRef = 0 /\ S.streams = {}
  /\ \E i \in Slots : S.tasks[i].kind = "connect" /\ S.tasks[i].pc = "token"
  /\ S.wsRef = 0 /\ \E w \in Sockets : S.sockets[w].readyState = "CLOSING"
  /\ S.lastLog.msg = "Requesting ephemeral token"

\* C10: once a go-away gave a server value, the source stays "server" and the
\* value is the server's countdown for as long as the session goes on.
C10_ServerSupersedes ==
  [][(S.goAwayTimeLeftSource = "server" /\ SessionGoesOn(S, S')) =>
        /\ S'.goAwayTimeLeftSource = "server"
        /\ S'.goAwaySeenRef]_vars

\* C11: at most one countdown timer and at most one reconnect timer are armed,
\* the timers of the estimated session and those of a go-away counted together.
C11_OneTimerOfEachKind ==
  /\ Cardinality(TimersOf(S, "sessionCountdown") \cup TimersOf(S, "goAwayCountdown")) <= 1
  /\ Cardinality(TimersOf(S, "sessionReconnect") \cup TimersOf(S, "goAwayTimer")) <= 1

\* The fragments of the stop specification: the user and the model say a stop
\* phrase, and the user says something else.
Input(chars) ==
  Ev(JObj([serverContent |-> JObj([inputTranscription |-> JObj([text |-> Str(chars)])])]))
Output(chars) ==
  Ev(JObj([serverContent |-> JObj([outputTranscription |-> JObj([text |-> Str(chars)])])]))
StopEvents ==
  { Input(<<"B", "y", "e", "!">>),
    Output(<<"G", "o", "o", "d", " ", "b", "y", "e">>),
    Input(<<"b", "y", "e", "s">>) }

\* Stop phrases: fragments arrive while the microphone runs and the teardown of
\* an earlier fragment waits for the audio contexts to close.
StopNext ==
  \/ Connect
  \/ \E i \in Slots : TokenOk(i)
  \/ \E w \in Sockets : WsOpen(w) \/ WsClosed(w, FALSE)
  \/ StartMic(FALSE)
  \/ \E i \in Slots : GumOk(i, SEND_SAMPLE_RATE)
  \/ \E evt \in StopEvents : Deliver(evt)
  \/ \E i \in Slots : AudioCloseDone(i) \/ PlayCloseDone(i)

SpecStop == Init /\ [][StopNext]_vars

StopMarkers(s, w) == {k \in 1..Len(HandedTo(s, w)) : HandedTo(s, w)[k].type = "audioStreamEnd"}

\* A new fragment of evt, handled in state s, matches a stop phrase.
StopHit(s, evt) ==
  LET inputText == readFirstString(evt.json, InputPaths)
      outputText == readFirstString(evt.json, OutputPaths)
      NewMatch(text, last) ==
        text # Null /\ text[1].chars # last /\ stopSequenceRegexTest(text[1].chars)
  IN /\ evt.parses /\ ~evt.blob
     /\ \/ NewMatch(inputText, s.lastInputTranscriptRef)
        \/ NewMatch(outputText, s.lastOutputTranscriptRef)

\* C12: the stop sequence issues its end-of-audio-stream marker and its close of
\* the transport at most once per transport, however many matching fragments are
\* handled, and exactly once when a fragment matches on an open transport.
C12_StopIssuedOnce ==
  /\ [](\A w \in Sockets : /\ S.sockets[w].stopCloses <= 1
                         /\ Cardinality(StopMarkers(S, w)) = S.sockets[w].stopCloses)
  /\ [][(/\ S'.msgCount > S.msgCount
          /\ StopHit(S, S'.delivered[S'.msgCount].evt)
          /\ IsOpen(S, S.wsRef)) =>
          /\ S'.sockets[S.wsRef].stopCloses = 1
          /\ S'.sockets[S.wsRef].readyState = "CLOSING"]_vars

\* Two teardowns are under way for one transport, the second started by a
\* fragment handled before the first had completed, and the transport got one
\* marker and one close.
C12_Witness ==
  /\ \A i \in Slots : S.tasks[i].kind = "stopSession"
  /\ \E w \in Sockets : /\ S.sockets[w].stopCloses = 1
                        /\ Cardinality(StopMarkers(S, w)) = 1
                        /\ S.delivered[1].ws = w /\ S.delivered[2].ws = w

\* The startMic() calls that have begun and not ended their microphone acquisition.
MicPending(s) ==
  {i \in Slots : s.tasks[i].kind = "startMic" /\ s.tasks[i].pc \in {"resume", "getUserMedia"}}

\* C13: a startMic() call made while an earlier call awaits the microphone, or
\* holds it, starts no second acquisition.
C13_OneAcquisition ==
  [][(S'.ops > S.ops /\ (MicPending(S) # {} \/ S.micStreamRef # 0)) =>
       MicPending(S') \subseteq MicPending(S)]_vars

\* The close event of some socket has come in the step.
CloseEvent(s, s2) ==
  \E w \in Sockets : s.sockets[w].readyState # "CLOSED" /\ s2.sockets[w].readyState = "CLOSED"

\* C14: a close event of the transport leaves the engine not connected and not
\* streaming, and streaming only becomes true again with the transport open.
C14_CloseStopsStreaming ==
  [][/\ CloseEvent(S, S') => (~S'.connected /\ ~S'.streaming)
     /\ (~S.streaming /\ S'.streaming) => IsOpen(S', S'.wsRef)]_vars

\* Disconnect: once disconnect() has been called nothing else happens until it
\* has completed; what it waits for are the closes of its audio contexts.
DisconnectRunning(s) == \E i \in Slots : s.tasks[i].kind = "disconnect"

DisconnectNext ==
  \/ /\ ~DisconnectRunning(S)
     /\ \/ Connect
        \/ \E i \in Slots : TokenOk(i)
        \/ \E w \in Sockets : WsOpen(w)
        \/ StartMic(FALSE)
        \/ \E i \in Slots : GumOk(i, SEND_SAMPLE_RATE)
        \/ \E evt \in GoAwayEvents : Deliver(evt)
        \/ \E t \in S.timers : GoAwayTimerFire(t)
        \/ Disconnect
  \/ \E i \in Slots : S.tasks[i].kind = "disconnect" /\ (AudioCloseDone(i) \/ PlayCloseDone(i))

SpecDisconnect == Init /\ [][DisconnectNext]_vars

\* disconnect() has completed in the step.
DisconnectDone(s, s2) ==
  /\ s2.lastLog.msg = "Disconnected."
  /\ \/ s2.ops > s.ops
     \/ \E i \in Slots : s.tasks[i].kind = "disconnect" /\ s2.tasks[i].kind = "none"

\* C15: when disconnect() completes with nothing interleaved, no timer is armed,
\* capture and playback are released, the transport is closed and its ref
\* cleared, connected and streaming are false, time-left and its source are null.
C15_DisconnectClean ==
  [][DisconnectDone(S, S') =>
       /\ S'.timers = {}
       /\ ~S'.streaming /\ S'.micStreamRef = 0 /\ S'.audioCtxRef = 0
       /\ S'.processorRef = 0 /\ S'.sourceNodeRef = 0
       /\ S'.streams = {} /\ S'.audioCtxs = {} /\ S'.procs = {}
       /\ S'.playCtxRef = 0 /\ \A c \in S'.playCtxs : c.state = "closed"
       /\ S'.wsRef = 0 /\ LiveSockets(S') = {}
       /\ ~S'.connected
       /\ S'.goAwayTimeLeftMs = Null /\ S'.goAwayTimeLeftSource = "null"]_vars

\* The fragments of the transcript specification: an utterance that grows, one
\* that starts anew, and one that shares its beginning with an earlier one.
Hello == <<"H", "e", "l", "l", "o">>
HelloThere == Hello \o <<" ", "t", "h", "e", "r", "e">>
GoodMorning == <<"G", "o", "o", "d", " ", "m", "o", "r", "n", "i", "n", "g">>
Fragments == {Hello, HelloThere, GoodMorning, Hello \o <<"!">>}
TranscriptEvents ==
  {Output(f) : f \in Fragments} \cup {Input(f) : f \in {Hello, GoodMorning}}

\* The session after connect(), the token and the open event of the transport.
OpenSession ==
  LET s1 == connectStart([InitS EXCEPT !.ops = 1], 1)
      s2 == connectOpenSocket([s1 EXCEPT !.tokens = <<TokenGranted>>], 1)
  IN onopen([s2 EXCEPT !.sockets[s2.wsRef].readyState = "OPEN"], s2.wsRef)

InitOpen == opt = DefaultOptions /\ S = OpenSession

\* Transcripts: fragments of the two streams arrive on the open transport.
TranscriptNext == \E evt \in TranscriptEvents : DeliverUpTo(evt, MaxFragments)

SpecTranscript == InitOpen /\ [][TranscriptNext]_vars

\* The text of the given stream in the message handled in the step, when the
\* step handles a message with such a text that differs from the current one.
NewFragment(s, s2, paths, current) ==
  IF s2.msgCount > s.msgCount /\ s.wsRef # 0
  THEN LET text == readFirstString(s2.delivered[s2.msgCount].evt.json, paths)
       IN IF text # Null /\ text[1].chars # current THEN Some(text[1].chars) ELSE Null
  ELSE Null

IsContinuationOf(text, prev) == StartsWith(text, prev) \/ StartsWith(prev, text)

\* The fragments delivered so far, in order.
FragmentsFed(s, paths) ==
  [n \in 1..Len(s.delivered) |-> readFirstString(s.delivered[n].evt.json, paths)]

\* C16: an output fragment that is neither an extension nor a prefix of the
\* current utterance moves that utterance into the history and becomes the current
\* one; a continuation replaces the current utterance and leaves the history as
\* it is.  "Hello", "Hello there", "Good morning" give the current utterance
\* "Good morning" and the history <<"Hello there">>.
C16_OutputHistory ==
  /\ [](FragmentsFed(S, OutputPaths) = <<Some(Str(Hello)), Some(Str(HelloThere)),
                                         Some(Str(GoodMorning))>> =>
          /\ S.lastOutputTranscriptRef = GoodMorning
          /\ S.outputHistoryRef = <<HelloThere>>)
  /\ [][LET f == NewFragment(S, S', OutputPaths, S.lastOutputTranscriptRef)
            prev == S.lastOutputTranscriptRef
        IN f # Null =>
             /\ S'.lastOutputTranscriptRef = f[1]
             /\ S'.outputHistoryRef =
                  IF prev # << >> /\ ~IsContinuationOf(f[1], prev)
                  THEN Append(S.outputHistoryRef, prev)
                  ELSE S.outputHistoryRef]_vars

Occurs(sub, text) ==
  \E k \in 0..(Len(text) - Len(sub)) : SubSeq(text, k + 1, k + Len(sub)) = sub

\* C17: the input stream keeps its completed utterances as the output stream
\* does: after an input fragment that is not a continuation of the current input
\* utterance, the input transcript holds the closed utterance and the new one.
C17_InputHistory ==
  [][LET f == NewFragment(S, S', InputPaths, S.lastInputTranscriptRef)
         prev == S.lastInputTranscriptRef
     IN (f # Null /\ prev # << >> /\ ~IsContinuationOf(f[1], prev)) =>
          /\ Occurs(prev, S'.inputTranscript)
          /\ Occurs(f[1], S'.inputTranscript)]_vars

\* Reconnects: go-aways arrive with the microphone on or off, their reconnect
\* timers run at once (the default lead is longer than the time left), and the
\* new connects succeed or fail while the old transport closes.
ReconnectNext ==
  \/ Connect
  \/ \E i \in Slots : TokenOk(i) \/ TokenFail(i)
  \/ \E w \in Sockets : WsOpen(w) \/ WsClosed(w, FALSE)
  \/ StartMic(FALSE)
  \/ \E i \in Slots : GumOk(i, SEND_SAMPLE_RATE)
  \/ \E i \in Slots : AudioCloseDone(i)
  \/ \E evt \in GoAwayEvents : Deliver(evt)
  \/ \E t \in S.timers : GoAwayTimerFire(t)

SpecReconnect == Init /\ [][ReconnectNext]_vars

\* C18: the teardown of a go-away reconnect does not reset the time-left: once the
\* reconnect timer has run, the time-left and its source exposed are not null, up
\* to the open of the new transport and after it.
C18_TimeLeftKept ==
  S.goAwayFired # Null => (S.goAwayTimeLeftMs # Null /\ S.goAwayTimeLeftSource # "null")

\* The reconnect timer has torn the transport down and connect() waits for its
\* token: no transport is open, and the server's time-left is still exposed.
C18_Witness ==
  /\ S.goAwayFired # Null
  /\ S.wsRef = 0 /\ ~S.connected /\ LiveSockets(S) = {}
  /\ \E i \in Slots : S.tasks[i].kind = "connect" /\ S.tasks[i].pc = "token"
  /\ S.goAwayTimeLeftSource = "server" /\ S.goAwayTimeLeftMs # Null
  /\ TimersOf(S, "goAwayTimer") = {} /\ TimersOf(S, "goAwayCountdown") = {}

\* Connecting: token requests succeed and fail in every way, for the connect() of
\* the component and for that of a go-away reconnect.
ConnectingNext ==
  \/ Connect
  \/ \E i \in Slots, http \in TokenOutcomes : TokenResponse(i, http)
  \/ \E w \in Sockets : WsOpen(w) \/ WsClosed(w, FALSE)
  \/ Disconnect
  \/ \E evt \in GoAwayEvents : Deliver(evt)
  \/ \E t \in S.timers : GoAwayTimerFire(t)

SpecConnecting == Init /\ [][ConnectingNext]_vars

\* A token request that failed: a network error, a status that is not 2xx, or a
\* body without a token.
TokenFailure(http) ==
  \/ ~http.net
  \/ http.status \notin 200..299
  \/ Get(http.data, "token").t # "string"
  \/ Get(http.data, "token").chars = << >>

AtToken(s) == {i \in Slots : s.tasks[i].kind \in ConnectKinds /\ s.tasks[i].pc = "token"}

\* C19: when the token request of a connect() fails, no transport is opened, the
\* engine is not connected, the last log entry is an error, and nothing retries:
\* no new token request is under way and no timer has been armed.
C19_TokenFailureAborts ==
  [][(Len(S'.tokens) > Len(S.tokens) /\ TokenFailure(S'.tokens[Len(S'.tokens)])) =>
       /\ \A w \in Sockets : S'.sockets[w].readyState = "NONE" <=> S.sockets[w].readyState = "NONE"
       /\ \A w \in Sockets : S'.sockets[w].readyState \notin {"CONNECTING", "OPEN"}
                               \/ S'.sockets[w].readyState = S.sockets[w].readyState
       /\ ~S'.connected
       /\ S'.lastLog.level = "error"
       /\ AtToken(S') \subseteq AtToken(S) /\ Cardinality(AtToken(S')) < Cardinality(AtToken(S))
       /\ S'.timers \subseteq S.timers]_vars

\* Three connects have failed, by a network error, by a refusal and by a body
\* without a token, and there has never been a transport.
C19_Witness ==
  /\ Len(S.tokens) = 3
  /\ \E k \in 1..3 : ~S.tokens[k].net
  /\ \E k \in 1..3 : S.tokens[k].net /\ ~S.tokens[k].ok
  /\ \E k \in 1..3 : S.tokens[k].ok /\ TokenFailure(S.tokens[k])
  /\ \A w \in Sockets : S.sockets[w].readyState = "NONE"
  /\ ~S.connected /\ S.lastLog.level = "error"
  /\ \A i \in Slots : S.tasks[i].kind = "none"

\* Messages that end in the catch block of handleMessage: text that is no JSON
\* (as a string), the JSON `null`, an output transcription with audio that atob
\* rejects, and a turn whose text part is followed by inline data with a number
\* for mimeType; and one well-formed input transcription.
Garbled == [blob |-> FALSE, parses |-> FALSE, json |-> JUndef]
NullMessage == Ev(JNull)
AudioPart(data, mimeType) ==
  JObj([inlineData |-> JObj([data |-> data, mimeType |-> mimeType])])
HelloBadAudio ==
  Ev(JObj([serverContent |->
             JObj([outputTranscription |-> JObj([text |-> Str(Hello)]),
                   modelTurn |->
                     JObj([parts |-> JArr(<<AudioPart(B64(FALSE, 0),
                                                      Str(<<"audio/pcm">>))>>)])])]))
TextBadMime ==
  Ev(JObj([serverContent |->
             JObj([modelTurn |->
                     JObj([parts |-> JArr(<<JObj([text |-> Str(HelloThere)]),
                                            AudioPart(B64(TRUE, 4), JNum(5))>>)])])]))
\* How many messages arrive in the specification of malformed messages.
MaxMalformed == 3

MalformedEvents == {Garbled, NullMessage, HelloBadAudio, TextBadMime, Input(GoodMorning)}

\* Malformed messages arrive on the open transport, before and after the
\* microphone (and with it the playback context) is started.
MalformedNext ==
  \/ \E evt \in MalformedEvents : DeliverUpTo(evt, MaxMalformed)
  \/ StartMic(FALSE)
  \/ \E i \in Slots : GumOk(i, SEND_SAMPLE_RATE)

SpecMalformed == InitOpen /\ [][MalformedNext]_vars

\* C20: a message that cannot be parsed, or whose handling throws, is logged as
\* an error and skipped: in the step in which its handler reaches the catch block
\* the connection state, the streaming state, the transcripts and the timers stay
\* as they were, the handler ends and holds no slot, and the transport is as it was.
C20_MalformedSkipped ==
  [][S'.caught # S.caught =>
       /\ S'.lastLog = [level |-> "error", msg |-> "Failed to parse message"]
       /\ S'.connected = S.connected /\ S'.wsRef = S.wsRef /\ S'.sockets = S.sockets
       /\ S'.streaming = S.streaming
       /\ S'.inputTranscript = S.inputTranscript
       /\ S'.outputTranscript = S.outputTranscript
       /\ S'.timers = S.timers
       /\ \A i \in Slots : S'.tasks[i].kind = "handler" => S'.tasks[i] = S.tasks[i]
       /\ FreeSlots(S) \subseteq FreeSlots(S')]_vars

\* Tool failures: batches with unknown tools, calls without a name and calls the
\* collaborator refuses arrive on the open transport while the microphone is
\* started.
ToolFailureNext ==
  \/ \E evt \in ToolEvents : Deliver(evt)
  \/ \E i \in Slots, j \in 1..MaxBatch, http \in HttpOutcomes : ToolResolve(i, j, http)
  \/ StartMic(FALSE)
  \/ \E i \in Slots : GumOk(i, SEND_SAMPLE_RATE)

SpecToolFailure == InitOpen /\ [][ToolFailureNext]_vars

\* The step runs code of handleToolCalls: a batch is delivered, or a call of a
\* batch is answered.
ToolStep(s, s2) ==
  \/ s2.msgCount > s.msgCount /\ BatchOf(s2, s2.msgCount) # << >>
  \/ \E i \in Slots : s.tasks[i].kind = "handler" /\ s.tasks[i].pc = "tools"
                      /\ s2.tasks[i] # s.tasks[i]

SocketStates(s) == [w \in Sockets |-> s.sockets[w].readyState]

\* C21: a failed or unknown tool call never aborts the session: no step of
\* handleToolCalls changes the connection state, the streaming state, the timers
\* or the transport, and once the handler of a batch has ended its tool response
\* was sent with an error entry for each failed call.
C21_ToolFailureKeepsSession ==
  /\ [][ToolStep(S, S') =>
          /\ S'.connected = S.connected /\ S'.streaming = S.streaming
          /\ S'.timers = S.timers
          /\ S'.wsRef = S.wsRef /\ SocketStates(S') = SocketStates(S)]_vars
  /\ [](\A n \in 1..Len(S.delivered) :
          (BatchOf(S, n) # << >> /\ S.delivered[n].ws # 0 /\ HandlerOf(S, n) = {}) =>
             \E m \in ToolResponses(S) :
                /\ m.n = n
                /\ \A j \in 1..Len(BatchOf(S, n)) :
                     CallFailed(S, n, j) => "error" \in DOMAIN m.functionResponses[j].response)

\* A batch with an unknown tool, a call without a name and a call the collaborator
\* could not be reached for has its response, on a session that is connected and
\* streaming with its timers armed.
C21_Witness ==
  /\ S.connected /\ S.streaming /\ IsOpen(S, S.wsRef) /\ S.timers # {}
  /\ \E m \in Range(S.sockets[S.wsRef].sent) :
       /\ m.type = "toolResponse"
       /\ Len(m.functionResponses) = 3
       /\ \A j \in 1..3 : "error" \in DOMAIN m.functionResponses[j].response
       /\ \E j \in 1..3 : ~S.delivered[m.n].http[j].net /\ S.delivered[m.n].http[j].status = 0

SetupCount(sent) == Cardinality({k \in 1..Len(sent) : sent[k].type = "setup"})

\* C22: on every transport the setup message is sent exactly once and is the
\* first message sent: a transport that is open has sent it, and whatever a
\* transport has sent starts with the one setup message.
C22_SetupFirstOnce ==
  \A w \in Sockets :
    LET sent == S.sockets[w].sent
    IN /\ S.sockets[w].readyState = "OPEN" => sent # << >>
       /\ sent # << >> => sent[1].type = "setup" /\ SetupCount(sent) = 1

\* A transport that has sent its setup message, the greeting, an audio frame and
\* the end-of-stream marker.
C22_Witness ==
  \E w \in Sockets :
    LET types == {S.sockets[w].sent[k].type : k \in 1..Len(S.sockets[w].sent)}
    IN {"setup", "clientContent", "audio", "audioStreamEnd"} \subseteq types

\* Capture failures: on the open transport startMic() is called, its resume(),
\* its getUserMedia or the setup of its capture graph fails or succeeds, the
\* close() of the capture context settles, stopMic() is called and the transport
\* closes.
CaptureFailureNext ==
  \/ \E suspended \in BOOLEAN : StartMic(suspended)
  \/ \E i \in Slots, ok \in BOOLEAN : MicResumeDone(i, ok)
  \/ \E i \in Slots : GumOk(i, SEND_SAMPLE_RATE) \/ GumFail(i)
  \/ \E i \in Slots, at \in SetupSteps : SetupFail(i, at)
  \/ \E i \in Slots : AudioCloseDone(i)
  \/ StopMic
  \/ \E w \in Sockets : WsClosed(w, FALSE)

SpecCaptureFailure == InitOpen /\ [][CaptureFailureNext]_vars

\* The step in which startMic call i enters its catch block, and the step in
\* which a call that entered it returns.
MicFails(s, s2, i) == s.tasks[i].kind = "startMic" /\ s2.lastLog.msg = "Mic start failed"
MicFailReturns(s, s2, i) ==
  /\ s2.tasks[i].kind = "none"
  /\ MicFails(s, s2, i) \/ s.tasks[i].kind = "startMicFail"

\* C23: when the permission is denied or the setup of the capture fails,
\* startMic logs an error and releases what it acquired (no stream, capture
\* context or processor is live that was not before), streaming is false,
\* and the connection state and the transport are as before; when the call
\* returns, streaming is false.
C23_MicFailureReleases ==
  [][\A i \in Slots :
       /\ MicFails(S, S', i) =>
            /\ S'.lastLog.level = "error"
            /\ ~S'.streaming
            /\ S'.streams \subseteq S.streams
            /\ S'.audioCtxs \subseteq S.audioCtxs
            /\ S'.procs \subseteq S.procs
            /\ S'.micStreamRef = 0 /\ S'.processorRef = 0 /\ S'.sourceNodeRef = 0
            /\ S'.connected = S.connected /\ S'.wsRef = S.wsRef
            /\ S'.sockets = S.sockets
       /\ MicFailReturns(S, S', i) =>
            /\ ~S'.streaming
            /\ S'.connected = S.connected /\ S'.wsRef = S.wsRef
            /\ S'.sockets = S.sockets]_vars

\* The open session before the component has called anything else.
InitStopMic == opt = DefaultOptions /\ S = [OpenSession EXCEPT !.ops = 0]

\* Stopping the capture: on the open transport the microphone is started and
\* stopped, again and again, while the transport may close.
StopMicNext ==
  \/ StartMic(FALSE)
  \/ \E i \in Slots : GumOk(i, SEND_SAMPLE_RATE)
  \/ StopMic
  \/ \E i \in Slots : AudioCloseDone(i)
  \/ \E w \in Sockets : WsClosed(w, FALSE)

SpecStopMic == InitStopMic /\ [][StopMicNext]_vars

\* Nothing is captured and no call is in flight.
CaptureIdle(s) ==
  /\ ~s.streaming
  /\ s.micStreamRef = 0 /\ s.audioCtxRef = 0 /\ s.processorRef = 0 /\ s.sourceNodeRef = 0
  /\ \A i \in Slots : s.tasks[i].kind = "none"

\* The step is a call of stopMic() that returns at once.
StopMicReturns(s, s2) ==
  /\ s2.ops = s.ops + 1
  /\ s2.tasks = s.tasks
  /\ s2.lastLog.msg = "Mic streaming stopped."

\* The step ends a call of stopMic(), at once or after its await.
StopMicEnds(s, s2) ==
  \/ StopMicReturns(s, s2)
  \/ \E i \in Slots : s.tasks[i].kind = "stopMic" /\ s2.tasks[i].kind = "none"

\* What the engine holds apart from its log.
EngineStateButLog(s) ==
  <<s.connected, s.streaming, s.inputTranscript, s.outputTranscript, s.goAwayTimeLeftMs,
    s.goAwayTimeLeftSource, s.lastServerMessageType, s.wsRef, s.goAwaySeenRef,
    s.sessionStartAtRef, s.sessionCountdownRef, s.sessionReconnectTimerRef,
    s.lastInputTranscriptRef, s.lastOutputTranscriptRef, s.outputHistoryRef,
    s.micStreamRef, s.audioCtxRef, s.sourceNodeRef, s.processorRef, s.sendBufRef,
    s.sendBufSamplesRef, s.playCtxRef, s.playTimeRef, s.goAwayTimerRef,
    s.goAwayCountdownRef, s.timers, SocketStates(s)>>

\* The marker goes to the open transport and to no other.
MarkerIfOpen(s, s2) ==
  IF IsOpen(s, s.wsRef)
  THEN s2.sockets = [s.sockets EXCEPT ![s.wsRef].sent = Append(@, [type |-> "audioStreamEnd"])]
  ELSE s2.sockets = s.sockets

Released(s, s2) == s2.streams = s.streams /\ s2.audioCtxs = s.audioCtxs /\ s2.procs = s.procs

\* C24 as stated: stopMic sends the end-of-stream marker only if the transport is
\* open, and a stopMic() when nothing is captured (a second one in a row, or one
\* without a capture) releases nothing further, changes no engine state, the log
\* included, and returns.
C24_StopIdempotent ==
  [][/\ StopMicEnds(S, S') => MarkerIfOpen(S, S')
     /\ (CaptureIdle(S) /\ S'.ops = S.ops + 1 /\ S'.lastLog.msg = "Mic streaming stopped.") =>
          /\ StopMicReturns(S, S')
          /\ Released(S, S')
          /\ EngineStateButLog(S') = EngineStateButLog(S)
          /\ S'.lastLog = S.lastLog]_vars

\* C24 amended: the same, except that every stopMic() adds its log entry.
C24_StopIdempotentButLog ==
  [][/\ StopMicEnds(S, S') => MarkerIfOpen(S, S')
     /\ (CaptureIdle(S) /\ S'.ops = S.ops + 1 /\ S'.lastLog.msg = "Mic streaming stopped.") =>
          /\ StopMicReturns(S, S')
          /\ Released(S, S')
          /\ EngineStateButLog(S') = EngineStateButLog(S)]_vars

\* The microphone was started and stopped, and stopped again at once: the open
\* transport has sent the greeting and then two markers in a row.
C24_Witness ==
  /\ CaptureIdle(S) /\ S.ops = 3 /\ IsOpen(S, S.wsRef)
  /\ LET sent == S.sockets[S.wsRef].sent
     IN /\ Len(sent) = 4
        /\ sent[2].type = "clientContent"
        /\ sent[3].type = "audioStreamEnd" /\ sent[4].type = "audioStreamEnd"

\* The step handles a fragment that matches a stop phrase, with a transport.
StopBegins(s, s2) ==
  /\ s2.msgCount > s.msgCount /\ s.wsRef # 0
  /\ StopHit(s, s2.delivered[s2.msgCount].evt)

\* The step ends a stop sequence: at once, or after its awaits.
StopEnds(s, s2) ==
  \/ StopBegins(s, s2) /\ s2.tasks = s.tasks
  \/ \E i \in Slots : s.tasks[i].kind = "stopSession" /\ s2.tasks[i].kind = "none"

\* C25: on a stop-phrase match with the transport open the end-of-stream marker is
\* sent and then the transport is closed, and when the stop sequence has completed
\* the capture and the playback are released, no timer is armed, and the engine
\* is disconnected and not streaming.
C25_StopGraceful ==
  [][/\ (StopBegins(S, S') /\ IsOpen(S, S.wsRef)) =>
          /\ S'.sockets[S.wsRef].sent =
               Append(S.sockets[S.wsRef].sent, [type |-> "audioStreamEnd"])
          /\ S'.sockets[S.wsRef].readyState = "CLOSING"
     /\ StopEnds(S, S') =>
          /\ S'.timers = {}
          /\ ~S'.streaming /\ S'.micStreamRef = 0 /\ S'.audioCtxRef = 0
          /\ S'.processorRef = 0 /\ S'.sourceNodeRef = 0
          /\ S'.streams = {} /\ S'.audioCtxs = {} /\ S'.procs = {}
          /\ S'.playCtxRef = 0 /\ \A c \in S'.playCtxs : c.state = "closed"
          /\ ~S'.connected /\ S'.wsRef = 0]_vars

\* The options of the estimate specification: a session limit that passes within
\* the time modelled, with and without the reconnect ahead of it, and the default.
EstimateOptions ==
  { [DefaultOptions EXCEPT !.sessionMaxDurationMs = 400, !.goAwayAutoReconnect = FALSE],
    [DefaultOptions EXCEPT !.sessionMaxDurationMs = 400, !.goAwayReconnectBeforeMs = 150],
    DefaultOptions }

InitEstimate == S = InitS /\ opt \in EstimateOptions

\* The estimated countdown: sessions open, close and are renewed while time
\* passes, and the server may announce the end of one.
EstimateNext ==
  \/ Connect
  \/ \E i \in Slots : TokenOk(i)
  \/ \E w \in Sockets : WsOpen(w) \/ WsClosed(w, FALSE)
  \/ Disconnect
  \/ Deliver(GoAway(Str(<<"0", ".", "5", "s">>)))
  \/ \E t \in S.timers : SessionCountdownFire(t) \/ SessionReconnectFire(t)
  \/ \E t \in S.timers : GoAwayCountdownFire(t) \/ GoAwayTimerFire(t)
  \/ \E dt \in TimeSteps : Advance(dt)

SpecEstimate == InitEstimate /\ [][EstimateNext]_vars

\* The open event of socket w comes in the step.
Opens(s, s2, w) == s.sockets[w].readyState = "CONNECTING" /\ s2.sockets[w].readyState = "OPEN"

\* The interval of the estimated countdown runs its callback in the step.
EstimateTicks(s, s2) ==
  /\ \A w \in Sockets : ~Opens(s, s2, w)
  /\ \E t \in TimersOf(s, "sessionCountdown") :
       /\ s.now >= t.due
       /\ [t EXCEPT !.due = s.now + COUNTDOWN_INTERVAL_MS] \in s2.timers

\* C26: from the open event of the transport until a go-away is received or the
\* session is torn down the source exposed is "estimated"; the time-left exposed
\* is the maximum session duration at the open event and, at each tick of the
\* countdown, max(0, maximum session duration - time since the open event): the
\* start time is set at the open event and only cleared afterwards.
C26_EstimatedCountdown ==
  /\ []((IsOpen(S, S.wsRef) /\ S.connected /\ ~S.goAwaySeenRef) =>
          /\ S.goAwayTimeLeftSource = "estimated"
          /\ S.goAwayTimeLeftMs # Null
          /\ S.goAwayTimeLeftMs[1] \in 0..opt.sessionMaxDurationMs)
  /\ [][/\ \A w \in Sockets : Opens(S, S', w) =>
             /\ S'.goAwayTimeLeftSource = "estimated"
             /\ S'.goAwayTimeLeftMs = Some(opt.sessionMaxDurationMs)
             /\ S'.sessionStartAtRef = Some(S.now)
        /\ (\A w \in Sockets : ~Opens(S, S', w)) =>
             S'.sessionStartAtRef \in {S.sessionStartAtRef, Null}
        /\ (EstimateTicks(S, S') /\ ~S.goAwaySeenRef /\ S.sessionStartAtRef # Null) =>
             LET elapsed == S.now - S.sessionStartAtRef[1]
                 left == opt.sessionMaxDurationMs - elapsed
             IN /\ S'.goAwayTimeLeftSource = "estimated"
                /\ S'.goAwayTimeLeftMs = Some(IF left > 0 THEN left ELSE 0)]_vars

\* The limit of the session has passed with the transport still open and no
\* go-away: the countdown ticked down to 150 ms and then to 0.
C26_Witness ==
  /\ IsOpen(S, S.wsRef) /\ S.connected /\ ~S.goAwaySeenRef
  /\ S.sessionStartAtRef = Some(0) /\ S.now = 500
  /\ opt.sessionMaxDurationMs = 400
  /\ S.goAwayTimeLeftSource = "estimated" /\ S.goAwayTimeLeftMs = Some(0)
  /\ \A t \in TimersOf(S, "sessionCountdown") : t.due > S.now

(***************************************************************************)
(* The log.  The hook keeps the entries in the state `logs`; the model of  *)
(* the session above keeps the newest of them (lastLog).  Here the whole   *)
(* list is kept: S is [logs, now, dropped], an entry is [t, level], and    *)
(* the level of an entry is taken from the time it is written at.          *)
(***************************************************************************)
LOG_LIMIT == 200

\* How many entries are written in the log specification.
MaxLogs == 203

LogLevels == <<"info", "warn", "error">>
LogItem(t) == [t |-> t, level |-> LogLevels[(t % 3) + 1]]

\* log without its slice.
setLogsUncapped(prev, item) == <<item>> \o prev

\* log: setLogs((prev) => [item, ...prev].slice(0, 200))
setLogs(prev, item) ==
  LET all == <<item>> \o prev
  IN SubSeq(all, 1, Min(Len(all), LOG_LIMIT))

InitLogs == S = [logs |-> << >>, now |-> 0, dropped |-> 0] /\ opt = DefaultOptions

\* log(level, msg) is called, one millisecond after the call before it.
Log ==
  /\ S.now < MaxLogs
  /\ S' = [logs |-> setLogs(S.logs, LogItem(S.now + 1)),
           now |-> S.now + 1,
           dropped |-> S.dropped + (IF Len(S.logs) = LOG_LIMIT THEN 1 ELSE 0)]
  /\ UNCHANGED opt

\* clearLogs() is called.
ClearLogs ==
  /\ S.logs # << >>
  /\ S' = [S EXCEPT !.logs = << >>]
  /\ UNCHANGED opt

LogsNext == Log \/ ClearLogs

SpecLogs == InitLogs /\ [][LogsNext]_vars

\* C27: the log never holds more than 200 entries and is ordered newest first:
\* each log operation puts its entry at the front, keeps the others in their
\* order, and drops the oldest one when the log is full.
C27_LogBounded ==
  /\ [](/\ Len(S.logs) <= 200
        /\ \A k \in 1..(Len(S.logs) - 1) : S.logs[k].t > S.logs[k + 1].t)
  /\ [][S'.now > S.now =>
          /\ S'.logs[1] = LogItem(S'.now)
          /\ Tail(S'.logs) = (IF Len(S.logs) = 200 THEN SubSeq(S.logs, 1, 199) ELSE S.logs)]_vars

\* A full log that has dropped its three oldest entries.
C27_Witness ==
  /\ Len(S.logs) = 200 /\ S.dropped = 3
  /\ S.logs[1].t = 203 /\ S.logs[200].t = 4


\* C28: readFirstString and extractFunctionCalls never throw for a parsed JSON
\* value, null included: of every message that arrived and parsed,
\* extractFunctionCalls returns null or an array, and readFirstString returns
\* null or a string that is not blank.
C28_HelpersNeverThrow ==
  \A n \in 1..Len(S.delivered) :
    LET evt == S.delivered[n].evt
    IN evt.parses =>
         /\ ~extractFunctionCalls(evt.json).threw
         /\ \A paths \in {InputPaths, OutputPaths} :
              LET text == readFirstString(evt.json, paths)
              IN text # Null => text[1].t = "string" /\ Trim(text[1].chars) # << >>


(***************************************************************************)
(* PCM conversion.  A sample is a rational number kept as its numerator    *)
(* over SampleGrid: the samples of the specification are the multiples of  *)
(* 1/65536, all of them exact as Float32 and as the doubles the code       *)
(* multiplies.  S is [pc, x, pcm, out]: the sample, the Int16Array element *)
(* made of it, and the Float32Array element played, again over SampleGrid. *)
(***************************************************************************)
PCM_NEGATIVE_SCALE == 32768
PCM_POSITIVE_SCALE == 32767
PCM_DIVISOR == 32768

SampleGrid == 2 * PCM_DIVISOR

\* The samples run from -MaxSample/SampleGrid to MaxSample/SampleGrid, a little
\* beyond [-1, 1].
MaxSample == 65540

\* clamp16BitPCM(x), as numerator and denominator.
clamp16BitPCM(x) ==
  LET v == Max(-SampleGrid, Min(SampleGrid, x))
  IN [num |-> IF v < 0 THEN v * PCM_NEGATIVE_SCALE ELSE v * PCM_POSITIVE_SCALE,
      den |-> SampleGrid]

\* Storing a number in an Int16Array: the fraction is cut off (towards zero) and
\* the integer taken modulo 2^16 into -32768..32767.
ToInt16Floor(q) ==
  LET int == q.num \div q.den
  IN ((int + 32768) % 65536) - 32768

ToInt16(q) ==
  LET int == IF q.num >= 0 THEN q.num \div q.den ELSE (q.num + q.den - 1) \div q.den
  IN ((int + 32768) % 65536) - 32768

\* floatToInt16PCM of one sample.
floatToInt16PCM(x) == ToInt16(clamp16BitPCM(x))

\* playPcmBase64: float32[i] = int16[i] / 0x8000, over SampleGrid.
int16ToFloat(v) == v * (SampleGrid \div PCM_DIVISOR)

InitPcm ==
  /\ opt = DefaultOptions
  /\ \E x \in (-MaxSample)..MaxSample : S = [pc |-> "sample", x |-> x, pcm |-> 0, out |-> 0]

\* The capture path quantizes the sample.
Quantize ==
  /\ S.pc = "sample"
  /\ S' = [S EXCEPT !.pc = "pcm", !.pcm = floatToInt16PCM(S.x)]
  /\ UNCHANGED opt

\* The playback path converts the PCM value back.
Dequantize ==
  /\ S.pc = "pcm"
  /\ S' = [S EXCEPT !.pc = "float", !.out = int16ToFloat(S.pcm)]
  /\ UNCHANGED opt

PcmNext == Quantize \/ Dequantize

SpecPcm == InitPcm /\ [][PcmNext]_vars

\* One quantization step (1/32768), over SampleGrid.
QuantizationStep == SampleGrid \div PCM_DIVISOR

InUnitRange(x) == -SampleGrid <= x /\ x <= SampleGrid

Abs(a) == IF a < 0 THEN -a ELSE a

\* C29 (as stated): a sample in [-1, 1] that was quantized and converted back
\* differs from the sample by at most one quantization step.
C29_RoundTripOneStep ==
  S.pc = "float" /\ InUnitRange(S.x) => Abs(S.out - S.x) <= QuantizationStep

\* C29 (amended): a sample in [-1, 1] that was quantized and converted back
\* differs from the sample by at most one quantization step when the sample is
\* not positive, and by less than two steps when it is positive; the value
\* converted back is never further from zero than the sample.
C29_RoundTripTwoSteps ==
  S.pc = "float" /\ InUnitRange(S.x) =>
    /\ S.pcm \in -32768..32767
    /\ S.x <= 0 => S.x <= S.out /\ S.out - S.x <= QuantizationStep
    /\ S.x > 0 => S.out <= S.x /\ S.x - S.out < 2 * QuantizationStep

\* The sample 65535/65536 came back as 32766/32768, a step and a half away.
C29_Witness ==
  S.pc = "float" /\ S.x = 65535 /\ S.pcm = 32766 /\ S.out = 65532


\* The timers armed by an open event at the time `now`.
SessionTimersAt(s, now) ==
  {[id |-> s.sessionCountdownRef, kind |-> "sessionCountdown",
    due |-> now + COUNTDOWN_INTERVAL_MS, start |-> 0, ms |-> 0]}
  \cup (IF opt.goAwayAutoReconnect
        THEN {[id |-> s.sessionReconnectTimerRef, kind |-> "sessionReconnect",
               due |-> now + Max(0, opt.sessionMaxDurationMs - Max(0, opt.goAwayReconnectBeforeMs)),
               start |-> 0, ms |-> 0]}
        ELSE {})

\* C30: no timer armed during one session is still armed after the next
\* session's transport has opened: after every open event the timers armed are
\* the countdown and the reconnect timer that this open event armed, held by
\* their refs, and nothing else; no go-away timer is armed or referred to.
C30_OpenClearsTimers ==
  [][\A w \in Sockets : Opens(S, S', w) =>
       /\ S'.timers = SessionTimersAt(S', S.now)
       /\ S'.sessionCountdownRef # 0
       /\ S'.sessionCountdownRef # S'.sessionReconnectTimerRef
       /\ opt.goAwayAutoReconnect <=> S'.sessionReconnectTimerRef # 0
       /\ S'.goAwayTimerRef = 0 /\ S'.goAwayCountdownRef = 0]_vars

\* The second transport has just opened, some time after the first, whose
\* session had received a go-away: only the timers of the new session are armed.
C30_Witness ==
  /\ S.sockets[1].readyState = "CLOSED" /\ S.sockets[2].readyState = "OPEN"
  /\ S.wsRef = 2 /\ S.connected
  /\ Len(S.delivered) >= 1 /\ S.delivered[1].ws = 1
  /\ S.now > 0 /\ S.sessionStartAtRef = Some(S.now)
  /\ S.timers = SessionTimersAt(S, S.now)


(***************************************************************************)
(* Playback: audio chunks arrive on the open transport while the playback  *)
(* context is resumed, torn down by disconnect() and created again in the  *)
(* next session.                                                           *)
(***************************************************************************)
PcmMime(rate) == Str(<<"audio/pcm", ";", "rate=">> \o rate)

\* One chunk of half a second at the playback rate.
AudioChunk ==
  Ev(JObj([serverContent |->
             JObj([modelTurn |->
                     JObj([parts |->
                             JArr(<<AudioPart(B64(TRUE, 24000),
                                              PcmMime(<<"2", "4", "0", "0", "0">>))>>)])])]))

\* Two chunks in one message: 150 ms at 16 kHz and one without a rate.
AudioChunks ==
  Ev(JObj([serverContent |->
             JObj([modelTurn |->
                     JObj([parts |->
                             JArr(<<AudioPart(B64(TRUE, 4800),
                                              PcmMime(<<"1", "6", "0", "0", "0">>)),
                                    AudioPart(B64(TRUE, 9600), Str(<<"audio/pcm">>))>>)])])]))

\* The session is open; startMic() has created the playback context, suspended,
\* and has failed to resume it.
SuspendedPlayback == startMicCatch(startMic(OpenSession, 1, TRUE), 1)

InitPlayback == opt = DefaultOptions /\ S = [SuspendedPlayback EXCEPT !.ops = 0]

PlaybackNext ==
  \/ Connect
  \/ \E i \in Slots : TokenOk(i)
  \/ \E w \in Sockets : WsOpen(w)
  \/ \E suspended \in BOOLEAN : StartMic(suspended)
  \/ \E i \in Slots, ok \in BOOLEAN : MicResumeDone(i, ok)
  \/ \E i \in Slots : GumOk(i, SEND_SAMPLE_RATE)
  \/ \E evt \in {AudioChunk, AudioChunks} : Deliver(evt)
  \/ \E i \in Slots, ok \in BOOLEAN : PlayResumeDone(i, ok)
  \/ Disconnect
  \/ \E i \in Slots : AudioCloseDone(i) \/ PlayCloseDone(i)
  \/ \E dt \in TimeSteps : Advance(dt)

SpecPlayback == InitPlayback /\ [][PlaybackNext]_vars

\* The chunks the step schedules.
NewChunks(s, s2) == (Len(s.scheduled) + 1)..Len(s2.scheduled)

ChunkEnd(c) == c.startAt + c.len

\* fullCleanup gives up the playback context in the step.
Teardown(s, s2) == s.playCtxRef # 0 /\ s2.playCtxRef = 0

\* C31: every accepted chunk is scheduled to start at max(current playback time,
\* cursor) and the cursor then moves to that start plus the chunk's duration:
\* the chunks of a step start at the cursor the step found or at the time of
\* their context, each later one at the end of the one before, and the cursor
\* ends at the end of the last; the cursor decreases only in a teardown; the
\* chunks scheduled on the context in use do not overlap and end by the cursor.
C31_SequentialPlayback ==
  /\ [][/\ \A k \in NewChunks(S, S') :
             LET c == S'.scheduled[k]
                 cursor == IF k = Len(S.scheduled) + 1 THEN S.playTimeRef
                           ELSE ChunkEnd(S'.scheduled[k - 1])
             IN /\ c.len > 0
                /\ c.startAt = Max(PlayCtx(S, c.ctx).time, cursor)
        /\ NewChunks(S, S') # {} => S'.playTimeRef = ChunkEnd(S'.scheduled[Len(S'.scheduled)])
        /\ SubSeq(S'.scheduled, 1, Len(S.scheduled)) = S.scheduled
        /\ S'.playTimeRef < S.playTimeRef => Teardown(S, S')]_vars
  /\ [](S.playCtxRef # 0 =>
          \A j, k \in 1..Len(S.scheduled) :
            (S.scheduled[j].ctx = S.playCtxRef /\ S.scheduled[k].ctx = S.playCtxRef) =>
              /\ ChunkEnd(S.scheduled[k]) <= S.playTimeRef
              /\ j < k => ChunkEnd(S.scheduled[j]) <= S.scheduled[k].startAt)


(***************************************************************************)
(* Barge-in: messages with the interrupted flag arrive between audio       *)
(* chunks, with the playback context running and time passing.             *)
(***************************************************************************)
Interrupted == Ev(JObj([serverContent |-> JObj([interrupted |-> JBool(TRUE)])]))

\* The chunk of AudioChunk in a message with the interrupted flag.
InterruptedChunk ==
  Ev(JObj([serverContent |->
             JObj([interrupted |-> JBool(TRUE),
                   modelTurn |-> Get(Get(AudioChunk.json, "serverContent"), "modelTurn")])]))

InterruptedNext ==
  \/ StartMic(FALSE)
  \/ \E i \in Slots : GumOk(i, SEND_SAMPLE_RATE) \/ GumFail(i)
  \/ \E evt \in {AudioChunk, Interrupted, InterruptedChunk} : DeliverUpTo(evt, MaxBatch)
  \/ \E t \in S.timers : SessionCountdownFire(t)
  \/ \E dt \in TimeSteps : Advance(dt)

SpecInterrupted == InitOpen /\ [][InterruptedNext]_vars

\* The message handled in the step has its interrupted flag set.
InterruptedHandled(s, s2) ==
  /\ s2.msgCount > s.msgCount
  /\ s.wsRef # 0
  /\ Truthy(Get(Get(s2.delivered[s2.msgCount].evt.json, "serverContent"), "interrupted"))

\* The message without its flag.
Unflagged(evt) ==
  IF evt = InterruptedChunk THEN AudioChunk
  ELSE [evt EXCEPT !.json = JObj([serverContent |-> JObj([x \in {} |-> JUndef])])]

\* C32: handling a message whose interrupted flag is set only adds a log entry:
\* the step logs the barge-in and leaves the playback cursor, the scheduled
\* audio, the connection and streaming state, the transport and the timers as
\* the same message without the flag leaves them; for a message that carries
\* nothing but the flag they are as they were before.
C32_InterruptedOnlyLogs ==
  [][InterruptedHandled(S, S') =>
       LET n == S'.msgCount
           evt == S'.delivered[n].evt
           plain == handleMessage([S EXCEPT !.msgCount = n], FreeSlot(S), n, Unflagged(evt))
       IN /\ S'.lastLog = [level |-> "info", msg |-> "Model interrupted (barge-in)."]
          /\ [S' EXCEPT !.lastLog = plain.lastLog, !.delivered = plain.delivered] = plain
          /\ evt = Interrupted =>
               /\ S'.playTimeRef = S.playTimeRef /\ S'.scheduled = S.scheduled
               /\ S'.connected = S.connected /\ S'.streaming = S.streaming
               /\ S'.wsRef = S.wsRef /\ S'.sockets = S.sockets
               /\ S'.timers = S.timers /\ S'.tasks = S.tasks
               /\ S'.playCtxs = S.playCtxs /\ S'.playCtxRef = S.playCtxRef]_vars

\* A barge-in was logged while a chunk scheduled before it was still to be
\* played to its end: the cursor is ahead of the time of the context.
C32_Witness ==
  /\ S.lastLog.msg = "Model interrupted (barge-in)."
  /\ S.msgCount >= 2 /\ S.delivered[S.msgCount].evt = Interrupted
  /\ S.playCtxRef # 0 /\ Len(S.scheduled) >= 1
  /\ S.playTimeRef > PlayCtx(S, S.playCtxRef).time


(***************************************************************************)
(* After disconnect(): connect() is called once, then disconnect() once,   *)
(* and connect() is not called again, so that once S.ops is 2 and no       *)
(* disconnect() is running, disconnect() has completed and connect() has   *)
(* not been called since.                                                  *)
(***************************************************************************)
AfterDisconnectNext ==
  \/ S.ops = 0 /\ Connect
  \/ S.ops = 1 /\ Disconnect
  \/ \E i \in Slots : TokenOk(i) \/ TokenFail(i)
  \/ \E w \in Sockets : WsOpen(w) \/ WsClosed(w, FALSE)
  \/ Deliver(GoAway(Str(<<"0", ".", "5", "s">>)))
  \/ \E t \in S.timers : SessionCountdownFire(t) \/ GoAwayCountdownFire(t)
  \/ \E t \in S.timers : GoAwayTimerFire(t)
  \/ \E dt \in TimeSteps : Advance(dt)

SpecAfterDisconnect == Init /\ [][AfterDisconnectNext]_vars

AfterDisconnect(s) == s.ops = 2 /\ ~DisconnectRunning(s)

\* C33: after disconnect() has completed the engine opens no transport and
\* performs no reconnect until connect() is called again: no socket is created,
\* no open event is taken and no reconnect callback starts, whatever connect
\* attempts, message handlers or timer callbacks were in flight.
C33_DisconnectIsFinal ==
  [][AfterDisconnect(S) =>
       /\ UnusedSockets(S') = UnusedSockets(S)
       /\ \A w \in Sockets : ~Opens(S, S', w)
       /\ \A i \in Slots :
            S'.tasks[i].kind \in {"goAwayReconnect", "sessionReconnect"} =>
              S.tasks[i].kind = S'.tasks[i].kind]_vars


(***************************************************************************)
(* Stale close events: the session is open, connect() is only called by    *)
(* the reconnect callbacks, and the transport a reconnect has replaced     *)
(* closes before or after the new one opens.                               *)
(***************************************************************************)
StaleCloseNext ==
  \/ Deliver(GoAway(Str(<<"0", ".", "5", "s">>)))
  \/ \E t \in S.timers : GoAwayTimerFire(t) \/ GoAwayCountdownFire(t)
  \/ \E t \in S.timers : SessionCountdownFire(t)
  \/ \E i \in Slots : TokenOk(i)
  \/ \E w \in Sockets : WsOpen(w) \/ WsClosed(w, FALSE)
  \/ StartMic(FALSE)
  \/ \E i \in Slots : GumOk(i, SEND_SAMPLE_RATE)
  \/ \E i \in Slots : AudioCloseDone(i)
  \/ \E dt \in TimeSteps : Advance(dt)

SpecStaleClose == InitOpen /\ [][StaleCloseNext]_vars

\* The close event of socket w comes in the step.
Closes(s, s2, w) == s.sockets[w].readyState # "CLOSED" /\ s2.sockets[w].readyState = "CLOSED"

\* C34: a close event from a transport that is no longer the current transport
\* of the session (wsRef holds another one, which has opened) does not change
\* the current session: connected, streaming and the timers stay as they were.
C34_StaleCloseIgnored ==
  [][\A w \in Sockets :
       (Closes(S, S', w) /\ S.wsRef # 0 /\ S.wsRef # w /\ IsOpen(S, S.wsRef)) =>
         /\ S'.connected = S.connected
         /\ S'.streaming = S.streaming
         /\ S'.timers = S.timers
         /\ S'.wsRef = S.wsRef]_vars


(***************************************************************************)
(* Pending reconnects: go-aways with a time-left that parses and with one  *)
(* that does not arrive on the open session; reconnects run.               *)
(***************************************************************************)
GoAwaySoon == GoAway(Str(<<"s", "o", "o", "n">>))

PendingNext ==
  \/ \E evt \in {GoAway(Str(<<"0", ".", "5", "s">>)), GoAwaySoon} : Deliver(evt)
  \/ \E t \in S.timers : GoAwayTimerFire(t) \/ GoAwayCountdownFire(t)
  \/ \E t \in S.timers : SessionCountdownFire(t) \/ SessionReconnectFire(t)
  \/ \E i \in Slots : TokenOk(i)
  \/ \E w \in Sockets : WsOpen(w) \/ WsClosed(w, FALSE)
  \/ \E dt \in TimeSteps : Advance(dt)

\* A session limit of 400 ms with a lead of 150 ms, and the defaults.
PendingOptions ==
  { [DefaultOptions EXCEPT !.sessionMaxDurationMs = 400, !.goAwayReconnectBeforeMs = 150],
    DefaultOptions }

InitPending == opt \in PendingOptions /\ S = OpenSession

SpecPending == InitPending /\ [][PendingNext]_vars

\* A reconnect callback is running.
Reconnecting(s) == \E i \in Slots : s.tasks[i].kind \in {"goAwayReconnect", "sessionReconnect"}

\* C35: with auto-reconnect enabled, whenever the transport of the session is
\* open a reconnect is pending for it: the estimated-limit reconnect timer is
\* armed and no go-away was seen (so that its callback acts), or a go-away
\* reconnect timer is armed, or a reconnect callback is running.
C35_ReconnectPending ==
  (opt.goAwayAutoReconnect /\ IsOpen(S, S.wsRef)) =>
    \/ TimersOf(S, "sessionReconnect") # {} /\ ~S.goAwaySeenRef
    \/ TimersOf(S, "goAwayTimer") # {}
    \/ Reconnecting(S)


\* A startMic() call is in progress.
StartMicRunning(s) == \E i \in Slots : s.tasks[i].kind = "startMic"

\* The close() of a capture context is being awaited by a teardown.
CaptureClosing(s) == \E i \in Slots : s.tasks[i].kind # "none" /\ s.tasks[i].pc = "audioClose"

\* C36: whenever streaming is false and no startMic() is in progress (nor a
\* teardown waiting for the capture context to close) the engine holds no
\* microphone stream and no capture audio graph: no stream is live, no capture
\* context open, no processor connected, and the refs are null; so also after a
\* close event of the transport.
C36_NoCaptureUnlessStreaming ==
  (~S.streaming /\ ~StartMicRunning(S) /\ ~CaptureClosing(S)) =>
    /\ S.streams = {} /\ S.audioCtxs = {} /\ S.procs = {}
    /\ S.micStreamRef = 0 /\ S.audioCtxRef = 0
    /\ S.processorRef = 0 /\ S.sourceNodeRef = 0


\* The chunks are, in their order, the samples a .. b of the resampled stream.
RECURSIVE Covers(_, _, _)
Covers(chunks, a, b) ==
  IF chunks = << >> THEN a = b + 1
  ELSE chunks[1].from = a /\ Covers(Tail(chunks), a + chunks[1].len, b)

\* The audio frames the step handed to the open transport w.
NewFrames(s, s2, w) ==
  SubSeq(s2.sockets[w].sent, Len(s.sockets[w].sent) + 1, Len(s2.sockets[w].sent))

\* C37: the frames assembled since startMic() are, end to end, a prefix of the
\* resampled chunks received since then: the buffer always holds, in order, the
\* samples after the last assembled frame up to the last one received, and the
\* k-th frame assembled is the samples (k - 1) * FRAME_SAMPLES + 1 ..
\* k * FRAME_SAMPLES, as seen on the frames handed to the open transport.
C37_FramesArePrefix ==
  /\ [](Covers(S.sendBufRef, S.capFrames * FRAME_SAMPLES + 1, S.capTotal))
  /\ [][(S'.callbacks > S.callbacks /\ IsOpen(S, S.wsRef)) =>
          LET new == NewFrames(S, S', S.wsRef)
          IN /\ Len(new) = S'.capFrames - S.capFrames
             /\ \A j \in 1..Len(new) :
                  /\ new[j].type = "audio"
                  /\ Covers(new[j].parts, (S.capFrames + j - 1) * FRAME_SAMPLES + 1,
                            (S.capFrames + j) * FRAME_SAMPLES)]_vars

\* Three callbacks have given frames that were all sent, one of them pieced
\* together from the rest of one chunk and the beginning of the next, and the
\* buffer holds the rest of a chunk.
C37_Witness ==
  /\ S.callbacks = 3 /\ S.capDropped = 0 /\ S.capSent >= 2
  /\ \E m \in AudioFrames(S) :
       Len(m.parts) >= 2 /\ m.parts[1].from > 1 /\ m.parts[1].len > 0 /\ m.parts[2].len > 0
  /\ S.sendBufRef # << >>
  /\ S.sendBufRef[1].from = S.capFrames * FRAME_SAMPLES + 1
  /\ S.sendBufSamplesRef > 0


\* A model turn whose parts carry text and no output transcription.
TurnText(chars) ==
  Ev(JObj([serverContent |->
             JObj([modelTurn |-> JObj([parts |-> JArr(<<JObj([text |-> Str(chars)])>>)])])]))

HistoryEvents == {Output(f) : f \in Fragments} \cup {TurnText(GoodMorning)}

\* How many messages arrive in the specification of the output history.
MaxUtterances == 4

\* Output history: fragments of the output stream and model-turn texts arrive
\* while the session is disconnected, connected again and closed by the server.
HistoryNext ==
  \/ \E evt \in HistoryEvents : DeliverUpTo(evt, MaxUtterances)
  \/ Disconnect
  \/ Connect
  \/ \E i \in Slots : TokenOk(i)
  \/ \E w \in Sockets : WsOpen(w) \/ WsClosed(w, FALSE)

SpecHistory == InitOpen /\ [][HistoryNext]_vars

IsPrefix(a, b) == Len(a) <= Len(b) /\ SubSeq(b, 1, Len(a)) = a

\* C38: the output history only grows at its end, and no two neighbouring entries
\* of it are equal: every step leaves the earlier history as a prefix of the new
\* one, across inbound messages, disconnects and reconnects.
C38_HistoryAppendOnly ==
  /\ [](\A k \in 1..(Len(S.outputHistoryRef) - 1) :
          S.outputHistoryRef[k] # S.outputHistoryRef[k + 1])
  /\ [][IsPrefix(S.outputHistoryRef, S'.outputHistoryRef)]_vars

\* After a disconnect and a reconnect the history holds an utterance stored
\* before the disconnect and one stored on the second transport.
C38_Witness ==
  /\ Len(S.outputHistoryRef) >= 2
  /\ S.wsRef = 2 /\ IsOpen(S, 2)
  /\ \E n \in 2..Len(S.delivered) :
       /\ S.delivered[n].ws = 2 /\ S.delivered[n - 1].ws = 1
       /\ \E k \in 1..(n - 1) : S.delivered[k].evt = Output(S.outputHistoryRef[1])
       /\ S.delivered[n].evt \in {Output(f) : f \in Fragments}
       /\ S.delivered[n].evt # Output(S.outputHistoryRef[2])
       /\ S.outputHistoryRef[2] # S.outputHistoryRef[1]


\* C39: the time-left exposed is never negative: it is null or at least 0,
\* whatever duration a go-away carries and whatever the session limit is.
C39_TimeLeftNotNegative ==
  S.goAwayTimeLeftMs = Null \/ S.goAwayTimeLeftMs[1] >= 0

=============================================================================
